---- MODULE Spec2Model ----
(***************************************************************************)
(* Virtual Drummer: the pattern generation pipeline                        *)
(*   settings -> style template -> (swing) -> humanize -> sort + dedup     *)
(* and the App / AudioEngine objects that hold the generated Pattern.      *)
(*                                                                         *)
(* Number representation (the source uses IEEE doubles):                   *)
(*   time, duration : integers, TU units per beat (TU = 2000, so one unit  *)
(*                    is half of the 1/1000-beat grid deduplicateHits      *)
(*                    rounds to; Math.round(time * 1000) is a real         *)
(*                    rounding here);                                      *)
(*   velocity       : integers, VU units per 1.0;                          *)
(*   complexity, dynamics : integers, hundredths (0..100);                 *)
(*   Math.random()  : a level r in 0..RandLevels-1 standing for            *)
(*                    r / RandLevels in [0, 1).                            *)
(* Products of doubles are truncated to the unit.                          *)
(***************************************************************************)
EXTENDS Integers, Sequences, FiniteSets, TLC

\* ------------------------------------------------------------------ bounds
\* number of different outcomes of the random source that are explored
NumSeeds == 2
\* resolution of one Math.random() draw
RandLevels == 48
\* longest hit sequence handed to the assembler and to swingPattern on their own
MaxLen == 3
\* most async calls of the App that are suspended at an await at the same time
MaxTasks == 1
\* the same, where the engine's kits are followed as objects
MaxCalls == 2
\* most kits the engine creates in one run
MaxKits == 3

\* ------------------------------------------------------------------- units
TU == 2000
VU == 1000000

\* ---------------------------------------------------------------- helpers
Abs(x) == IF x < 0 THEN -x ELSE x
Max(a, b) == IF a >= b THEN a ELSE b
Min(a, b) == IF a <= b THEN a ELSE b
Range(s) == {s[i] : i \in DOMAIN s}

\* v * (num / den) on velocities
Scale(v, num, den) == (v * num) \div den

RECURSIVE Flatten(_)
Flatten(ss) == IF ss = <<>> THEN <<>> ELSE Head(ss) \o Flatten(Tail(ss))

\* the hits pushed by a push that is guarded by cond
PushIf(cond, hit) == IF cond THEN <<hit>> ELSE <<>>

Hit(drum, time, velocity, duration) ==
    [drum |-> drum, time |-> time, velocity |-> velocity, duration |-> duration]

\* number of iterations of  for (i = 0; i < limit; i++)  for limit = units / step
LoopCount(units, step) == (units + step - 1) \div step

\* ------------------------------------------------------------ random source
\* The value of the Math.random() call at source line `line`, in iteration
\* (a, b) of the loops around it, under random outcome `seed`.
MathRandom(seed, line, a, b) ==
    LET x  == line + 977 * a + 131 * b
        m1 == (x * 1103 + seed * 12345 + 1) % 9973
        m2 == (m1 * (((x + seed * 31) % 9973) + 7)) % 9973
    IN  m2 % RandLevels

\* Math.random() < num / den
RandomBelow(r, num, den) == r * den < num * RandLevels

\* lo + dynamics * range, with lo and range in hundredths
BaseVelocity(lo, range, dynamics) == lo * (VU \div 100) + dynamics * range * (VU \div 10000)

\* a literal number of beats, given in thousandths of a beat
Beats(thousandths) == (thousandths * TU) \div 1000

\* ------------------------------------------------------- templates/rock.ts
RockGetBeatsPerBar(timeSignature) ==
    CASE timeSignature = "3/4" -> Beats(3000)
      [] timeSignature = "4/4" -> Beats(4000)
      [] timeSignature = "5/4" -> Beats(5000)
      [] timeSignature = "6/8" -> Beats(6000)
      [] timeSignature = "7/8" -> Beats(3500)
      [] OTHER -> Beats(4000)

addKickPattern(barOffset, beatsPerBar, complexity, velocity) ==
    <<Hit("kick", barOffset, velocity, Beats(250))>>
    \o (IF beatsPerBar >= Beats(4000)
        THEN <<Hit("kick", barOffset + Beats(2000), Scale(velocity, 95, 100), Beats(250))>>
             \o PushIf(complexity > 50,
                   Hit("kick", barOffset + Beats(1500), Scale(velocity, 8, 10), Beats(250)))
             \o PushIf(complexity > 70,
                   Hit("kick", barOffset + Beats(3500), Scale(velocity, 75, 100), Beats(250)))
        ELSE <<>>)

\* mutant of addSnarePattern: the ghost notes are gated by the opposite test
addSnarePattern_GhostInverted(barOffset, beatsPerBar, complexity, velocity, isFillBar) ==
    IF beatsPerBar >= Beats(4000)
    THEN <<Hit("snare", barOffset + Beats(1000), velocity, Beats(250))>>
         \o PushIf(~isFillBar, Hit("snare", barOffset + Beats(3000), velocity, Beats(250)))
         \o (IF complexity <= 60
             THEN << Hit("snare", barOffset + Beats(500), Scale(velocity, 3, 10), Beats(125)),
                     Hit("snare", barOffset + Beats(2500), Scale(velocity, 3, 10), Beats(125)) >>
             ELSE <<>>)
    ELSE IF beatsPerBar = Beats(3000)
    THEN <<Hit("snare", barOffset + Beats(1000), velocity, Beats(250))>>
    ELSE <<>>

addSnarePattern(barOffset, beatsPerBar, complexity, velocity, isFillBar) ==
    IF beatsPerBar >= Beats(4000)
    THEN <<Hit("snare", barOffset + Beats(1000), velocity, Beats(250))>>
         \o PushIf(~isFillBar, Hit("snare", barOffset + Beats(3000), velocity, Beats(250)))
         \o (IF complexity > 60
             THEN << Hit("snare", barOffset + Beats(500), Scale(velocity, 3, 10), Beats(125)),
                     Hit("snare", barOffset + Beats(2500), Scale(velocity, 3, 10), Beats(125)) >>
             ELSE <<>>)
    ELSE IF beatsPerBar = Beats(3000)
    THEN <<Hit("snare", barOffset + Beats(1000), velocity, Beats(250))>>
    ELSE <<>>

\* bar is the index of the bar (it only names the draw of Math.random())
addHihatPattern(seed, bar, barOffset, beatsPerBar, complexity, dynamics, velocity) ==
    LET subdivision == IF complexity < 30 THEN Beats(1000)
                       ELSE IF complexity < 60 THEN Beats(500) ELSE Beats(250)
        steps == LoopCount(beatsPerBar, subdivision)
        OneHit(i) ==
            LET time == barOffset + i * subdivision
                isOnBeat == time % TU = 0
                isOffBeat == (time * 2) % TU = 0 /\ ~isOnBeat
                isOpen == dynamics > 70 /\ isOffBeat
                          /\ RandomBelow(MathRandom(seed, 1180, bar, i), 3, 10)
            IN  Hit(IF isOpen THEN "hihat-open" ELSE "hihat-closed",
                    time,
                    IF isOnBeat THEN velocity ELSE Scale(velocity, 7, 10),
                    IF isOpen THEN Beats(250) ELSE Beats(125))
    IN  [k \in 1..steps |-> OneHit(k - 1)]

addRidePattern(barOffset, beatsPerBar, velocity) ==
    [k \in 1..LoopCount(beatsPerBar, TU) |->
        Hit("ride", barOffset + (k - 1) * TU, velocity, Beats(500))]

addRockFill(barOffset, beatsPerBar, complexity, velocity) ==
    LET fillStart == barOffset + beatsPerBar - Beats(1000)
        fillNotes == << [drum |-> "snare",    offset |-> 0],
                        [drum |-> "tom-high", offset |-> 250],
                        [drum |-> "tom-mid",  offset |-> 500],
                        [drum |-> "tom-low",  offset |-> 750] >>
    IN  (IF complexity > 80
         THEN << Hit("snare", fillStart - Beats(1000), velocity, Beats(250)),
                 Hit("snare", fillStart - Beats(750), Scale(velocity, 9, 10), Beats(250)),
                 Hit("tom-high", fillStart - Beats(500), velocity, Beats(250)),
                 Hit("tom-high", fillStart - Beats(250), Scale(velocity, 9, 10), Beats(250)) >>
         ELSE <<>>)
        \o [k \in 1..4 |->
              Hit(fillNotes[k].drum, fillStart + Beats(fillNotes[k].offset),
                  \* velocity * (1 - offset * 0.1), offset in thousandths
                  Scale(velocity, 1000 - fillNotes[k].offset \div 10, 1000), Beats(250))]

\* mutant of RockBar: the hi-hat is added in fill bars too
RockBar_HihatInFill(seed, bar, beatsPerBar, complexity, dynamics, baseVelocity) ==
    LET barOffset == bar * beatsPerBar
        isFillBar == complexity > 60 /\ (bar + 1) % 4 = 0
    IN  addKickPattern(barOffset, beatsPerBar, complexity, baseVelocity)
        \o addSnarePattern(barOffset, beatsPerBar, complexity, baseVelocity, isFillBar)
        \o addHihatPattern(seed, bar, barOffset, beatsPerBar, complexity, dynamics,
                           baseVelocity)
        \o PushIf(bar = 0 \/ (bar > 0 /\ complexity > 50 /\ bar % 4 = 0),
                  Hit("crash", barOffset, Scale(baseVelocity, 9, 10), Beats(500)))
        \o (IF isFillBar
            THEN addRockFill(barOffset, beatsPerBar, complexity, baseVelocity)
            ELSE <<>>)
        \o (IF dynamics < 30 /\ complexity > 40
            THEN addRidePattern(barOffset, beatsPerBar, Scale(baseVelocity, 7, 10))
            ELSE <<>>)

\* the hits generateRockPattern pushes in the iteration of its loop for bar
RockBar(seed, bar, beatsPerBar, complexity, dynamics, baseVelocity) ==
    LET barOffset == bar * beatsPerBar
        isFillBar == complexity > 60 /\ (bar + 1) % 4 = 0
    IN  addKickPattern(barOffset, beatsPerBar, complexity, baseVelocity)
        \o addSnarePattern(barOffset, beatsPerBar, complexity, baseVelocity, isFillBar)
        \o (IF ~isFillBar
            THEN addHihatPattern(seed, bar, barOffset, beatsPerBar, complexity, dynamics,
                                 baseVelocity)
            ELSE <<>>)
        \o PushIf(bar = 0 \/ (bar > 0 /\ complexity > 50 /\ bar % 4 = 0),
                  Hit("crash", barOffset, Scale(baseVelocity, 9, 10), Beats(500)))
        \o (IF isFillBar
            THEN addRockFill(barOffset, beatsPerBar, complexity, baseVelocity)
            ELSE <<>>)
        \o (IF dynamics < 30 /\ complexity > 40
            THEN addRidePattern(barOffset, beatsPerBar, Scale(baseVelocity, 7, 10))
            ELSE <<>>)

\* baseVelocity of generateRockPattern
RockBaseVelocity(dynamics) == BaseVelocity(50, 40, dynamics)

generateRockPattern(seed, bars, timeSignature, complexity, dynamics) ==
    LET beatsPerBar == RockGetBeatsPerBar(timeSignature)
        baseVelocity == RockBaseVelocity(dynamics)
    IN  Flatten([k \in 1..bars |->
                   RockBar(seed, k - 1, beatsPerBar, complexity, dynamics, baseVelocity)])

\* v * (a + Math.random() * b), a and b in hundredths, r the level drawn
ScaleRandom(v, a, b, r) == Scale(v, a, 100) + (Scale(v, b, 100) * r) \div RandLevels

\* ------------------------------------------------------- templates/lofi.ts
LofiGetBeatsPerBar(timeSignature) ==
    CASE timeSignature = "3/4" -> Beats(3000)
      [] timeSignature = "4/4" -> Beats(4000)
      [] timeSignature = "5/4" -> Beats(5000)
      [] timeSignature = "6/8" -> Beats(6000)
      [] timeSignature = "7/8" -> Beats(3500)
      [] OTHER -> Beats(4000)

addLofiRide(seed, bar, barOffset, beatsPerBar, complexity, velocity) ==
    LET rideVel == Scale(velocity, 6, 10)
        OneBeat(beat) ==
            <<Hit("ride", barOffset + beat * TU,
                  ScaleRandom(rideVel, 85, 15, MathRandom(seed, 2059, bar, beat)),
                  Beats(300))>>
            \o PushIf((complexity > 20 \/ beat % 2 = 0)
                        /\ RandomBelow(MathRandom(seed, 2065, bar, beat), 85, 100),
                      Hit("ride", barOffset + beat * TU + Beats(670),
                          Scale(rideVel, 65, 100), Beats(200)))
    IN  Flatten([k \in 1..LoopCount(beatsPerBar, TU) |-> OneBeat(k - 1)])

addLofiKick(seed, bar, barOffset, beatsPerBar, complexity, velocity) ==
    LET kickVel == Scale(velocity, 7, 10)
    IN  IF beatsPerBar >= Beats(4000)
        THEN <<Hit("kick", barOffset, Scale(kickVel, 8, 10), Beats(250))>>
             \o (IF complexity < 40
                 THEN PushIf(RandomBelow(MathRandom(seed, 2098, bar, 0), 6, 10),
                             Hit("kick", barOffset + Beats(2000), Scale(kickVel, 5, 10),
                                 Beats(200)))
                 ELSE IF complexity < 70
                 THEN <<Hit("kick", barOffset + Beats(1670), Scale(kickVel, 6, 10), Beats(200))>>
                 ELSE <<Hit("kick", barOffset + Beats(1670), Scale(kickVel, 55, 100),
                            Beats(200))>>
                      \o PushIf(RandomBelow(MathRandom(seed, 2122, bar, 0), 5, 10),
                                Hit("kick", barOffset + Beats(3330), Scale(kickVel, 5, 10),
                                    Beats(200))))
        ELSE IF beatsPerBar = Beats(3000)
        THEN <<Hit("kick", barOffset, Scale(kickVel, 7, 10), Beats(250))>>
        ELSE <<>>

\* time in thousandths of a beat, prob and vel in hundredths
ghostPositions ==
    << [time |-> 670,  prob |-> 40, vel |-> 25],
       [time |-> 1670, prob |-> 50, vel |-> 30],
       [time |-> 2330, prob |-> 35, vel |-> 22],
       [time |-> 2670, prob |-> 45, vel |-> 28],
       [time |-> 3670, prob |-> 40, vel |-> 25] >>

addLofiSnare(seed, bar, barOffset, beatsPerBar, complexity, velocity) ==
    LET snareVel == Scale(velocity, 75, 100)
    IN  IF beatsPerBar >= Beats(4000)
        THEN << Hit("snare", barOffset + Beats(1000), Scale(snareVel, 7, 10), Beats(150)),
                Hit("snare", barOffset + Beats(3000), Scale(snareVel, 75, 100), Beats(150)) >>
             \o Flatten([k \in DOMAIN ghostPositions |->
                   LET ghost == ghostPositions[k]
                   IN  PushIf(Beats(ghost.time) < beatsPerBar
                                /\ RandomBelow(MathRandom(seed, 2176, bar, k),
                                               ghost.prob * (500 + complexity * 8), 100000),
                              Hit("snare", barOffset + Beats(ghost.time),
                                  Scale(snareVel, ghost.vel, 100), Beats(80)))])
        ELSE IF beatsPerBar = Beats(3000)
        THEN <<Hit("snare", barOffset + Beats(1000), Scale(snareVel, 7, 10), Beats(150))>>
             \o PushIf(RandomBelow(MathRandom(seed, 2194, bar, 0), 4, 10),
                       Hit("snare", barOffset + Beats(670), Scale(snareVel, 25, 100), Beats(80)))
        ELSE <<>>

addLofiHihat(seed, bar, barOffset, beatsPerBar, complexity, velocity) ==
    LET hihatVel == Scale(velocity, 5, 10)
    IN  IF beatsPerBar >= Beats(4000)
        THEN << Hit("hihat-closed", barOffset + Beats(1000), Scale(hihatVel, 5, 10), Beats(80)),
                Hit("hihat-closed", barOffset + Beats(3000), Scale(hihatVel, 5, 10), Beats(80)) >>
             \o PushIf(complexity > 50
                         /\ RandomBelow(MathRandom(seed, 2232, bar, 0), 25, 100),
                       LET openPos == IF RandomBelow(MathRandom(seed, 2233, bar, 0), 5, 10)
                                      THEN Beats(3670) ELSE Beats(1670)
                       IN  Hit("hihat-open", barOffset + openPos, Scale(hihatVel, 4, 10),
                               Beats(120)))
        ELSE <<>>

LofiBar(seed, bar, beatsPerBar, complexity, baseVelocity) ==
    LET barOffset == bar * beatsPerBar
    IN  addLofiRide(seed, bar, barOffset, beatsPerBar, complexity, baseVelocity)
        \o addLofiKick(seed, bar, barOffset, beatsPerBar, complexity, baseVelocity)
        \o addLofiSnare(seed, bar, barOffset, beatsPerBar, complexity, baseVelocity)
        \o addLofiHihat(seed, bar, barOffset, beatsPerBar, complexity, baseVelocity)

\* baseVelocity of generateLofiPattern
LofiBaseVelocity(dynamics) == BaseVelocity(45, 30, dynamics)

generateLofiPattern(seed, bars, timeSignature, complexity, dynamics) ==
    LET beatsPerBar == LofiGetBeatsPerBar(timeSignature)
        baseVelocity == LofiBaseVelocity(dynamics)
    IN  Flatten([k \in 1..bars |-> LofiBar(seed, k - 1, beatsPerBar, complexity, baseVelocity)])

\* ------------------------------------------------------ templates/latin.ts
LatinGetBeatsPerBar(timeSignature) ==
    CASE timeSignature = "3/4" -> Beats(3000)
      [] timeSignature = "4/4" -> Beats(4000)
      [] timeSignature = "5/4" -> Beats(5000)
      [] timeSignature = "6/8" -> Beats(6000)
      [] timeSignature = "7/8" -> Beats(3500)
      [] OTHER -> Beats(4000)

addLatinKick(barOffset, beatsPerBar, claveBar, complexity, velocity) ==
    IF beatsPerBar >= Beats(4000)
    THEN IF claveBar = 0
         THEN << Hit("kick", barOffset + 0, velocity, Beats(200)),
                 Hit("kick", barOffset + Beats(2500), Scale(velocity, 9, 10), Beats(200)) >>
              \o PushIf(complexity > 50,
                        Hit("kick", barOffset + Beats(3500), Scale(velocity, 85, 100),
                            Beats(200)))
         ELSE << Hit("kick", barOffset + Beats(500), Scale(velocity, 9, 10), Beats(200)),
                 Hit("kick", barOffset + Beats(2000), velocity, Beats(200)) >>
              \o PushIf(complexity > 50,
                        Hit("kick", barOffset + Beats(3000), Scale(velocity, 85, 100),
                            Beats(200)))
    ELSE IF beatsPerBar = Beats(3000)
    THEN << Hit("kick", barOffset, velocity, Beats(200)),
            Hit("kick", barOffset + Beats(1500), Scale(velocity, 85, 100), Beats(200)) >>
    ELSE <<>>

addLatinSnare(barOffset, beatsPerBar, claveBar, complexity, velocity) ==
    LET crossVelocity == Scale(velocity, 7, 10)
    IN  IF beatsPerBar >= Beats(4000)
        THEN (IF claveBar = 0
              THEN << Hit("snare", barOffset + Beats(1000), crossVelocity, Beats(150)),
                      Hit("snare", barOffset + Beats(2000), Scale(crossVelocity, 9, 10),
                          Beats(150)),
                      Hit("snare", barOffset + Beats(3000), crossVelocity, Beats(150)) >>
              ELSE << Hit("snare", barOffset + Beats(1000), crossVelocity, Beats(150)),
                      Hit("snare", barOffset + Beats(3000), crossVelocity, Beats(150)) >>)
             \o (IF complexity > 60
                 THEN << Hit("snare", barOffset + Beats(500), Scale(velocity, 3, 10), Beats(100)),
                         Hit("snare", barOffset + Beats(2500), Scale(velocity, 3, 10),
                             Beats(100)) >>
                 ELSE <<>>)
        ELSE <<>>

addLatinCymbal(barOffset, beatsPerBar, complexity, dynamics, velocity) ==
    LET useRide == dynamics > 50
        drum == IF useRide THEN "ride" ELSE "hihat-closed"
    IN  [k \in 1..LoopCount(beatsPerBar * 2, TU) |->
            LET i == k - 1
                isOnBeat == i % 2 = 0
            IN  Hit(drum, barOffset + i * Beats(500),
                    Scale(velocity, IF isOnBeat THEN 8 ELSE 6, 10), Beats(200))]
        \o (IF dynamics > 60 /\ ~useRide
            THEN << Hit("hihat-open", barOffset + Beats(1500), Scale(velocity, 7, 10),
                        Beats(250)),
                    Hit("hihat-open", barOffset + Beats(3500), Scale(velocity, 7, 10),
                        Beats(250)) >>
            ELSE <<>>)

addCascaraPattern(barOffset, beatsPerBar, claveBar, complexity, velocity) ==
    LET tomVelocity == Scale(velocity, 6, 10)
        cascara == IF claveBar = 0
                   THEN <<0, 500, 1000, 1500, 2500, 3000, 3500>>
                   ELSE <<0, 500, 1500, 2000, 2500, 3500>>
    IN  IF beatsPerBar >= Beats(4000)
        THEN [k \in DOMAIN cascara |->
                LET pos == cascara[k]
                    useTomHigh == pos % 1000 = 0
                IN  Hit(IF useTomHigh THEN "tom-high" ELSE "tom-mid",
                        barOffset + Beats(pos), tomVelocity, Beats(150))]
        ELSE <<>>

addBellPattern(seed, bar, barOffset, beatsPerBar, complexity, velocity) ==
    LET bellPositions == <<0, 1500, 2000, 3500>>
        bellVelocity == Scale(velocity, 5, 10)
    IN  Flatten([k \in DOMAIN bellPositions |->
            LET pos == bellPositions[k]
            IN  PushIf(Beats(pos) < beatsPerBar
                         /\ RandomBelow(MathRandom(seed, 3199, bar, k),
                                        500 + complexity * 3, 1000),
                       Hit("crash", barOffset + Beats(pos), bellVelocity, Beats(200)))])

\* mutant of LatinBar: the clave side does not alternate
LatinBar_OneSide(seed, bar, beatsPerBar, complexity, dynamics, baseVelocity) ==
    LET barOffset == bar * beatsPerBar
        claveBar == 0
    IN  addLatinKick(barOffset, beatsPerBar, claveBar, complexity, baseVelocity)
        \o addLatinSnare(barOffset, beatsPerBar, claveBar, complexity, baseVelocity)
        \o addLatinCymbal(barOffset, beatsPerBar, complexity, dynamics, baseVelocity)
        \o (IF complexity > 40
            THEN addCascaraPattern(barOffset, beatsPerBar, claveBar, complexity, baseVelocity)
            ELSE <<>>)
        \o (IF complexity > 30
            THEN addBellPattern(seed, bar, barOffset, beatsPerBar, complexity, baseVelocity)
            ELSE <<>>)

LatinBar(seed, bar, beatsPerBar, complexity, dynamics, baseVelocity) ==
    LET barOffset == bar * beatsPerBar
        claveBar == bar % 2
    IN  addLatinKick(barOffset, beatsPerBar, claveBar, complexity, baseVelocity)
        \o addLatinSnare(barOffset, beatsPerBar, claveBar, complexity, baseVelocity)
        \o addLatinCymbal(barOffset, beatsPerBar, complexity, dynamics, baseVelocity)
        \o (IF complexity > 40
            THEN addCascaraPattern(barOffset, beatsPerBar, claveBar, complexity, baseVelocity)
            ELSE <<>>)
        \o (IF complexity > 30
            THEN addBellPattern(seed, bar, barOffset, beatsPerBar, complexity, baseVelocity)
            ELSE <<>>)

\* baseVelocity of generateLatinPattern
LatinBaseVelocity(dynamics) == BaseVelocity(55, 35, dynamics)

generateLatinPattern(seed, bars, timeSignature, complexity, dynamics) ==
    LET beatsPerBar == LatinGetBeatsPerBar(timeSignature)
        baseVelocity == LatinBaseVelocity(dynamics)
    IN  Flatten([k \in 1..bars |->
                   LatinBar(seed, k - 1, beatsPerBar, complexity, dynamics, baseVelocity)])

\* ------------------------------------------------------- templates/jazz.ts
JazzGetBeatsPerBar(timeSignature) ==
    CASE timeSignature = "3/4" -> Beats(3000)
      [] timeSignature = "4/4" -> Beats(4000)
      [] timeSignature = "5/4" -> Beats(5000)
      [] timeSignature = "6/8" -> Beats(6000)
      [] timeSignature = "7/8" -> Beats(3500)
      [] OTHER -> Beats(4000)

addSwingRidePattern(seed, bar, barOffset, beatsPerBar, complexity, velocity) ==
    LET OneBeat(beat) ==
            <<Hit("ride", barOffset + beat * TU, velocity, Beats(300))>>
            \o PushIf(complexity > 20 \/ beat % 2 = 0,
                      Hit("ride", barOffset + beat * TU + Beats(670),
                          Scale(velocity, 75, 100), Beats(200)))
            \o PushIf(beat = 0
                        /\ RandomBelow(MathRandom(seed, 3287, bar, beat), complexity * 3, 1000),
                      Hit("ride", barOffset + beat * TU, Scale(velocity, 11, 10), Beats(300)))
    IN  Flatten([k \in 1..LoopCount(beatsPerBar, TU) |-> OneBeat(k - 1)])

addJazzHihatPattern(barOffset, beatsPerBar, velocity) ==
    IF beatsPerBar >= Beats(4000)
    THEN << Hit("hihat-closed", barOffset + Beats(1000), Scale(velocity, 6, 10), Beats(100)),
            Hit("hihat-closed", barOffset + Beats(3000), Scale(velocity, 6, 10), Beats(100)) >>
    ELSE IF beatsPerBar = Beats(3000)
    THEN <<Hit("hihat-closed", barOffset + Beats(1000), Scale(velocity, 6, 10), Beats(100))>>
    ELSE <<>>

addFeatheredKick(seed, bar, barOffset, beatsPerBar, complexity, dynamics, velocity) ==
    LET featherVelocity == Scale(velocity, 3, 10)
    IN  Flatten([k \in 1..LoopCount(beatsPerBar, TU) |->
            PushIf(dynamics > 30,
                   Hit("kick", barOffset + (k - 1) * TU, featherVelocity, Beats(200)))])
        \o (IF complexity > 50
            THEN LET accentBeat == IF RandomBelow(MathRandom(seed, 3354, bar, 0), 5, 10)
                                   THEN 0 ELSE 2
                 IN  PushIf(accentBeat * TU < beatsPerBar,
                            Hit("kick", barOffset + accentBeat * TU, Scale(velocity, 6, 10),
                                Beats(250)))
            ELSE <<>>)

\* beat in thousandths of a beat, prob in hundredths
compingPositions ==
    << [beat |-> 670,  prob |-> 20],
       [beat |-> 1670, prob |-> 30],
       [beat |-> 2000, prob |-> 15],
       [beat |-> 2670, prob |-> 25],
       [beat |-> 3500, prob |-> 20] >>

addJazzSnareComping(seed, bar, barOffset, beatsPerBar, complexity, velocity) ==
    IF complexity < 30 THEN <<>>
    ELSE Flatten([k \in DOMAIN compingPositions |->
            LET pos == compingPositions[k]
            IN  PushIf(Beats(pos.beat) < beatsPerBar
                         /\ RandomBelow(MathRandom(seed, 3386, bar, k),
                                        pos.prob * complexity, 10000),
                       Hit("snare", barOffset + Beats(pos.beat),
                           ScaleRandom(velocity, 40, 30, MathRandom(seed, 3390, bar, k)),
                           Beats(150)))])

\* mutant of addJazzFill: the crash is left to the main loop
addJazzFill_NoCrash(barOffset, beatsPerBar, complexity, velocity) ==
    LET fillStart == barOffset + beatsPerBar - Beats(1000)
    IN  (IF complexity > 70
         THEN << Hit("snare", fillStart, Scale(velocity, 7, 10), Beats(150)),
                 Hit("snare", fillStart + Beats(330), Scale(velocity, 8, 10), Beats(150)),
                 Hit("snare", fillStart + Beats(670), Scale(velocity, 9, 10), Beats(150)) >>
         ELSE <<Hit("snare", fillStart + Beats(500), Scale(velocity, 8, 10), Beats(200))>>)

addJazzFill(barOffset, beatsPerBar, complexity, velocity) ==
    LET fillStart == barOffset + beatsPerBar - Beats(1000)
    IN  (IF complexity > 70
         THEN << Hit("snare", fillStart, Scale(velocity, 7, 10), Beats(150)),
                 Hit("snare", fillStart + Beats(330), Scale(velocity, 8, 10), Beats(150)),
                 Hit("snare", fillStart + Beats(670), Scale(velocity, 9, 10), Beats(150)) >>
         ELSE <<Hit("snare", fillStart + Beats(500), Scale(velocity, 8, 10), Beats(200))>>)
        \o <<Hit("crash", barOffset + beatsPerBar, Scale(velocity, 7, 10), Beats(500))>>

JazzBar(seed, bar, beatsPerBar, complexity, dynamics, baseVelocity) ==
    LET barOffset == bar * beatsPerBar
        isFourBarPhrase == (bar + 1) % 4 = 0
    IN  addSwingRidePattern(seed, bar, barOffset, beatsPerBar, complexity, baseVelocity)
        \o addJazzHihatPattern(barOffset, beatsPerBar, baseVelocity)
        \o addFeatheredKick(seed, bar, barOffset, beatsPerBar, complexity, dynamics,
                            baseVelocity)
        \o addJazzSnareComping(seed, bar, barOffset, beatsPerBar, complexity, baseVelocity)
        \o (IF isFourBarPhrase /\ complexity > 50
            THEN addJazzFill(barOffset, beatsPerBar, complexity, baseVelocity)
            ELSE <<>>)

\* mutant of JazzBaseVelocity: the constants are those of the rock template
JazzBaseVelocity_AsRock(dynamics) == BaseVelocity(50, 40, dynamics)

\* baseVelocity of generateJazzPattern
JazzBaseVelocity(dynamics) == BaseVelocity(40, 40, dynamics)

generateJazzPattern(seed, bars, timeSignature, complexity, dynamics) ==
    LET beatsPerBar == JazzGetBeatsPerBar(timeSignature)
        baseVelocity == JazzBaseVelocity(dynamics)
    IN  Flatten([k \in 1..bars |->
                   JazzBar(seed, k - 1, beatsPerBar, complexity, dynamics, baseVelocity)])

\* ------------------------------------------------- templates/electronic.ts
ElectronicGetBeatsPerBar(timeSignature) ==
    CASE timeSignature = "3/4" -> Beats(3000)
      [] timeSignature = "4/4" -> Beats(4000)
      [] timeSignature = "5/4" -> Beats(5000)
      [] timeSignature = "6/8" -> Beats(6000)
      [] timeSignature = "7/8" -> Beats(3500)
      [] OTHER -> Beats(4000)

addFourOnFloorKick(barOffset, beatsPerBar, complexity, velocity, isBreakdown) ==
    IF isBreakdown THEN <<>>
    ELSE [k \in 1..LoopCount(beatsPerBar, TU) |->
             Hit("kick", barOffset + (k - 1) * TU, velocity, Beats(200))]
         \o PushIf(complexity > 60,
                   Hit("kick", barOffset + Beats(750), Scale(velocity, 85, 100), Beats(150)))
         \o (IF complexity > 80
             THEN << Hit("kick", barOffset + Beats(2500), Scale(velocity, 8, 10), Beats(150)),
                     Hit("kick", barOffset + Beats(3750), Scale(velocity, 85, 100),
                         Beats(150)) >>
             ELSE <<>>)

\* mutant of addElectronicSnare: the offbeat snare comes in above 0.5
addElectronicSnare_OffbeatEarly(barOffset, beatsPerBar, complexity, velocity, isBreakdown) ==
    IF isBreakdown THEN <<>>
    ELSE IF beatsPerBar >= Beats(4000)
    THEN << Hit("snare", barOffset + Beats(1000), velocity, Beats(200)),
            Hit("snare", barOffset + Beats(3000), velocity, Beats(200)) >>
         \o PushIf(complexity > 50,
                   Hit("snare", barOffset + Beats(1500), Scale(velocity, 5, 10), Beats(100)))
    ELSE <<>>

addElectronicSnare(barOffset, beatsPerBar, complexity, velocity, isBreakdown) ==
    IF isBreakdown THEN <<>>
    ELSE IF beatsPerBar >= Beats(4000)
    THEN << Hit("snare", barOffset + Beats(1000), velocity, Beats(200)),
            Hit("snare", barOffset + Beats(3000), velocity, Beats(200)) >>
         \o PushIf(complexity > 70,
                   Hit("snare", barOffset + Beats(1500), Scale(velocity, 5, 10), Beats(100)))
    ELSE <<>>

addElectronicHihats(seed, bar, barOffset, beatsPerBar, complexity, dynamics, velocity) ==
    LET subdivision == Beats(250)
        steps == LoopCount(beatsPerBar, subdivision)
        OneStep(i) ==
            LET time == barOffset + i * subdivision
                isOnBeat == i % 4 = 0
                isOffBeat == i % 2 = 1
                isEighthOffbeat == i % 4 = 2
                isOpen == dynamics > 50 /\ isEighthOffbeat
                          /\ RandomBelow(MathRandom(seed, 3581, bar, i), 4, 10)
                hitVelocity == IF isOnBeat THEN Scale(velocity, 9, 10)
                               ELSE IF isEighthOffbeat THEN Scale(velocity, 8, 10)
                               ELSE IF isOffBeat THEN Scale(velocity, 5, 10)
                               ELSE Scale(velocity, 7, 10)
            IN  IF complexity < 50 /\ ~isOnBeat /\ ~isEighthOffbeat THEN <<>>
                ELSE IF complexity < 30 /\ ~isOnBeat THEN <<>>
                ELSE <<Hit(IF isOpen THEN "hihat-open" ELSE "hihat-closed", time, hitVelocity,
                           IF isOpen THEN Beats(200) ELSE Beats(100))>>
    IN  Flatten([k \in 1..steps |-> OneStep(k - 1)])

addElectronicPercussion(seed, bar, barOffset, beatsPerBar, complexity, velocity) ==
    LET positions == <<500, 1500, 2500, 3500>>
    IN  Flatten([k \in DOMAIN positions |->
            PushIf(Beats(positions[k]) < beatsPerBar
                     /\ RandomBelow(MathRandom(seed, 3618, bar, k), complexity * 4, 1000),
                   Hit("ride", barOffset + Beats(positions[k]), Scale(velocity, 5, 10),
                       Beats(150)))])

addElectronicFill(barOffset, beatsPerBar, velocity) ==
    LET fillStart == barOffset + beatsPerBar - Beats(2000)
    IN  [k \in 1..16 |->
            LET i == k - 1
            IN  \* velocity * (0.3 + (i / 16) * 0.7)
                Hit("snare", fillStart + i * Beats(125), Scale(velocity, 48 + 7 * i, 160),
                    Beats(100))]
        \o <<Hit("crash", barOffset + beatsPerBar, velocity, Beats(500))>>

ElectronicBar(seed, bar, beatsPerBar, complexity, dynamics, baseVelocity) ==
    LET barOffset == bar * beatsPerBar
        isBreakdownBar == complexity > 60 /\ (bar + 1) % 8 = 0
    IN  addFourOnFloorKick(barOffset, beatsPerBar, complexity, baseVelocity, isBreakdownBar)
        \o addElectronicSnare(barOffset, beatsPerBar, complexity, baseVelocity, isBreakdownBar)
        \o addElectronicHihats(seed, bar, barOffset, beatsPerBar, complexity, dynamics,
                               baseVelocity)
        \o (IF complexity > 50
            THEN addElectronicPercussion(seed, bar, barOffset, beatsPerBar, complexity,
                                         baseVelocity)
            ELSE <<>>)
        \o (IF isBreakdownBar
            THEN addElectronicFill(barOffset, beatsPerBar, baseVelocity)
            ELSE <<>>)

\* baseVelocity of generateElectronicPattern
ElectronicBaseVelocity(dynamics) == BaseVelocity(60, 35, dynamics)

generateElectronicPattern(seed, bars, timeSignature, complexity, dynamics) ==
    LET beatsPerBar == ElectronicGetBeatsPerBar(timeSignature)
        baseVelocity == ElectronicBaseVelocity(dynamics)
    IN  Flatten([k \in 1..bars |->
                   ElectronicBar(seed, k - 1, beatsPerBar, complexity, dynamics, baseVelocity)])

\* ------------------------------------------------------------- humanize.ts
DEFAULT_OPTIONS == [timingVariation |-> 50, velocityVariation |-> 50, enabled |-> TRUE]

\* mutant of humanizeHit: the results are not clamped
humanizeHit_NoClamp(hit, options, seed, index) ==
    LET maxTimingOffset == (3 * TU * options.timingVariation) \div 10000
        timingOffset == ((2 * MathRandom(seed, 4035, index, 0) - RandLevels) * maxTimingOffset)
                            \div RandLevels
        maxVelocityOffset == (15 * options.velocityVariation * VU) \div 10000
        velocityOffset == ((2 * MathRandom(seed, 4039, index, 0) - RandLevels) * maxVelocityOffset)
                            \div RandLevels
    IN  [hit EXCEPT !.time = hit.time + timingOffset, !.velocity = hit.velocity + velocityOffset]

\* mutant of humanizeHit: the offsets are drawn from [0, 2 max) instead of [-max, max)
humanizeHit_Uncentred(hit, options, seed, index) ==
    LET maxTimingOffset == (3 * TU * options.timingVariation) \div 10000
        timingOffset == (2 * MathRandom(seed, 4035, index, 0) * maxTimingOffset) \div RandLevels
        maxVelocityOffset == (15 * options.velocityVariation * VU) \div 10000
        velocityOffset == (2 * MathRandom(seed, 4039, index, 0) * maxVelocityOffset)
                            \div RandLevels
        newTime == Max(0, hit.time + timingOffset)
        newVelocity == Max(VU \div 10, Min(VU, hit.velocity + velocityOffset))
    IN  [hit EXCEPT !.time = newTime, !.velocity = newVelocity]

\* hit is the index-th element of the array humanizePattern maps over
humanizeHit(hit, options, seed, index) ==
    LET maxTimingOffset == (3 * TU * options.timingVariation) \div 10000
        timingOffset == ((2 * MathRandom(seed, 4035, index, 0) - RandLevels) * maxTimingOffset)
                            \div RandLevels
        maxVelocityOffset == (15 * options.velocityVariation * VU) \div 10000
        velocityOffset == ((2 * MathRandom(seed, 4039, index, 0) - RandLevels) * maxVelocityOffset)
                            \div RandLevels
        newTime == Max(0, hit.time + timingOffset)
        newVelocity == Max(VU \div 10, Min(VU, hit.velocity + velocityOffset))
    IN  [hit EXCEPT !.time = newTime, !.velocity = newVelocity]

\* options: the fields the caller passes (a function from field names)
humanizePattern(hits, options, seed) ==
    LET opts == [f \in DOMAIN DEFAULT_OPTIONS |->
                    IF f \in DOMAIN options THEN options[f] ELSE DEFAULT_OPTIONS[f]]
    IN  IF ~opts.enabled
        THEN hits
        ELSE [i \in DOMAIN hits |-> humanizeHit(hits[i], opts, seed, i)]

\* the JavaScript remainder a % m (m > 0): it has the sign of a
JsRem(a, m) == IF a >= 0 THEN a % m ELSE -((-a) % m)

\* mutant of swingPattern: every hit within a quarter beat of the offbeat is moved
swingPattern_Wide(hits, swingAmount) ==
    [i \in DOMAIN hits |->
        LET hit == hits[i]
            beatPosition == JsRem(hit.time, TU)
        IN  IF Abs(beatPosition - TU \div 2) < TU \div 4
            THEN LET swingOffset == (17 * swingAmount * TU) \div 10000
                 IN  [hit EXCEPT !.time = hit.time + swingOffset]
            ELSE hit]

\* swingAmount in hundredths
swingPattern(hits, swingAmount) ==
    [i \in DOMAIN hits |->
        LET hit == hits[i]
            beatPosition == JsRem(hit.time, TU)
        IN  IF Abs(beatPosition - TU \div 2) < TU \div 10
            THEN LET swingOffset == (17 * swingAmount * TU) \div 10000
                 IN  [hit EXCEPT !.time = hit.time + swingOffset]
            ELSE hit]

\* ----------------------------------------------------- PatternGenerator.ts
\* mutant of getBeatsPerBar: the case for 7/8 is missing
getBeatsPerBar_NoSevenEight(timeSignature) ==
    CASE timeSignature = "3/4" -> Beats(3000)
      [] timeSignature = "4/4" -> Beats(4000)
      [] timeSignature = "5/4" -> Beats(5000)
      [] timeSignature = "6/8" -> Beats(6000)
      [] OTHER -> Beats(4000)

getBeatsPerBar(timeSignature) ==
    CASE timeSignature = "3/4" -> Beats(3000)
      [] timeSignature = "4/4" -> Beats(4000)
      [] timeSignature = "5/4" -> Beats(5000)
      [] timeSignature = "6/8" -> Beats(6000)
      [] timeSignature = "7/8" -> Beats(3500)
      [] OTHER -> Beats(4000)

\* Math.round(x) for x = num / den, den > 0: halves round up
MathRound(num, den) == (2 * num + den) \div (2 * den)

\* mutant of DedupKey: the time is not rounded
DedupKey_RawTime(hit) == <<hit.drum, hit.time>>

\* the key deduplicateHits builds from Math.round(hit.time * 1000) and hit.drum
DedupKey(hit) == <<hit.drum, MathRound(hit.time * 1000, TU)>>

\* hits.sort((a, b) => a.time - b.time): a stable sort
ByTime(a, b) == a.time < b.time
\* mutant of SortByTime: the array is left as it is
SortByTime_Unsorted(hits) == hits
SortByTime(hits) == SortSeq(hits, ByTime)

\* mutant of DedupStep: the first hit of a key is kept whatever the velocities
DedupStep_FirstWins(seen, hit) ==
    LET key == DedupKey(hit)
    IN  IF key \notin DOMAIN seen.map
        THEN [keys |-> Append(seen.keys, key), map |-> seen.map @@ (key :> hit)]
        ELSE seen

\* The Map `seen` is the pair of `keys` (its keys in insertion order) and
\* `map` (key -> value).  One iteration of the loop of deduplicateHits:
DedupStep(seen, hit) ==
    LET key == DedupKey(hit)
    IN  IF key \notin DOMAIN seen.map
        THEN [keys |-> Append(seen.keys, key), map |-> seen.map @@ (key :> hit)]
        ELSE IF hit.velocity > seen.map[key].velocity
        THEN [seen EXCEPT !.map[key] = hit]
        ELSE seen

\* the Map after the iterations for hits[lo..hi], in order, starting from seen
RECURSIVE DedupLoop(_, _, _, _)
DedupLoop(hits, lo, hi, seen) ==
    IF lo > hi THEN seen
    ELSE IF lo = hi THEN DedupStep(seen, hits[lo])
    ELSE LET mid == (lo + hi) \div 2
             firstHalf == DedupLoop(hits, lo, mid, seen)
         IN  \* (the test only makes TLC evaluate firstHalf before it goes on:
             \*  the Map is never empty after an iteration)
             IF firstHalf.keys = <<>> THEN firstHalf
             ELSE DedupLoop(hits, mid + 1, hi, firstHalf)

\* mutant of deduplicateHits: the values of the Map are returned unsorted
deduplicateHits_NoSort(hits) ==
    LET seen == DedupLoop(hits, 1, Len(hits), [keys |-> <<>>, map |-> <<>>])
    IN  [k \in DOMAIN seen.keys |-> seen.map[seen.keys[k]]]

deduplicateHits(hits) ==
    LET seen == DedupLoop(hits, 1, Len(hits), [keys |-> <<>>, map |-> <<>>])
    IN  SortByTime([k \in DOMAIN seen.keys |-> seen.map[seen.keys[k]]])

\* mutant of generateBasePattern: the default arm falls to the last template
generateBasePattern_DefaultLofi(settings, seed) ==
    LET bars == settings.bars
        timeSignature == settings.timeSignature
        complexity == settings.complexity
        dynamics == settings.dynamics
    IN  CASE settings.kitStyle = "rock" ->
                generateRockPattern(seed, bars, timeSignature, complexity, dynamics)
          [] settings.kitStyle = "jazz" ->
                generateJazzPattern(seed, bars, timeSignature, complexity, dynamics)
          [] settings.kitStyle = "electronic" ->
                generateElectronicPattern(seed, bars, timeSignature, complexity, dynamics)
          [] settings.kitStyle = "latin" ->
                generateLatinPattern(seed, bars, timeSignature, complexity, dynamics)
          [] OTHER ->
                generateLofiPattern(seed, bars, timeSignature, complexity, dynamics)

generateBasePattern(settings, seed) ==
    LET bars == settings.bars
        timeSignature == settings.timeSignature
        complexity == settings.complexity
        dynamics == settings.dynamics
    IN  CASE settings.kitStyle = "rock" ->
                generateRockPattern(seed, bars, timeSignature, complexity, dynamics)
          [] settings.kitStyle = "jazz" ->
                generateJazzPattern(seed, bars, timeSignature, complexity, dynamics)
          [] settings.kitStyle = "electronic" ->
                generateElectronicPattern(seed, bars, timeSignature, complexity, dynamics)
          [] settings.kitStyle = "latin" ->
                generateLatinPattern(seed, bars, timeSignature, complexity, dynamics)
          [] settings.kitStyle = "lofi" ->
                generateLofiPattern(seed, bars, timeSignature, complexity, dynamics)
          [] OTHER ->
                generateRockPattern(seed, bars, timeSignature, complexity, dynamics)

\* mutant of SwingStage: swing is applied whatever the style
SwingStage_Always(settings, hits) == swingPattern(hits, 50)

\* the value of `hits` after the swing step of generatePattern
SwingStage(settings, hits) ==
    IF settings.kitStyle = "jazz" THEN swingPattern(hits, 60)
    ELSE IF settings.kitStyle = "lofi" THEN swingPattern(hits, 50)
    ELSE hits

\* the value of `hits` after the humanize step of generatePattern
HumanizeStage(hits, seed) ==
    humanizePattern(hits, [timingVariation |-> 40, velocityVariation |-> 30, enabled |-> TRUE],
                    seed)

\* sort by time, then deduplicate
Assemble(hits) == deduplicateHits(SortByTime(hits))

\* the Pattern generatePattern builds from the humanized hits
PatternOf(settings, hits) ==
    [hits |-> Assemble(hits),
     lengthInBeats |-> settings.bars * getBeatsPerBar(settings.timeSignature),
     timeSignature |-> settings.timeSignature,
     bpm |-> settings.bpm]

\* generatePattern(settings) when the random source behaves as `seed`
generatePattern(settings, seed) ==
    PatternOf(settings,
              HumanizeStage(SwingStage(settings, generateBasePattern(settings, seed)), seed))

\* ------------------------------------------------------------------ state
VARIABLES
    settingsIn,    \* the GeneratorSettings passed to generatePattern
    seedIn,        \* the outcome of the random source during the call
    pc,          \* "call" before the function under study has run, "done" after
    baseHits,    \* generatePattern's `hits` after generateBasePattern
    swungHits,   \* ... after the swing step
    humanHits,   \* ... after humanizePattern
    pattern,     \* the Pattern generatePattern returned
    hitsIn,      \* the DrumHit[] argument of a stage called on its own
    swingAmountIn, \* the swingAmount argument of swingPattern
    optionsIn,   \* the options argument of humanizePattern
    dynamicsIn,  \* the dynamics argument given to the five templates
    velocityOut, \* kitStyle -> the baseVelocity its template computed
    patternIn,   \* the pattern argument of schedulePattern
    scheduled,   \* the timeStr of each transport.schedule call, in call order
    op,          \* the stage that was called on its own
    hitsOut,     \* what it returned
    hitsAgain,   \* what the assembler returned when applied to hitsOut
    app,         \* App.tsx: the component's state (useState)
    engine,      \* SampleDrums.ts: the fields of the audioEngine singleton
    transport,   \* Tone.getTransport(): what the engine writes to it
    heap,        \* the Pattern objects that are still referenced, by reference
    returned,    \* each of them as generatePattern returned it
    tasks,       \* the async calls that are suspended at an await
    output,      \* the file handed to the browser by the step just taken
    kits         \* the kit objects the engine created, in order of creation

genVars == <<settingsIn, seedIn, baseHits, swungHits, humanHits, pattern>>
stageVars == <<hitsIn, swingAmountIn, optionsIn, dynamicsIn, velocityOut, patternIn, scheduled,
               op, hitsOut, hitsAgain>>
appVars == <<app, engine, transport, heap, returned, tasks, output, kits>>
vars == <<settingsIn, seedIn, pc, baseHits, swungHits, humanHits, pattern,
          hitsIn, swingAmountIn, optionsIn, dynamicsIn, velocityOut, patternIn, scheduled,
          op, hitsOut, hitsAgain,
          app, engine, transport, heap, returned, tasks, output, kits>>

KitStyles == {"rock", "jazz", "electronic", "latin", "lofi"}
TimeSignatures == {"3/4", "4/4", "5/4", "6/8", "7/8"}
BAR_OPTIONS == {1, 2, 4, 8}
Seeds == 0..(NumSeeds - 1)

\* values outside the two enumerations (the switch statements have defaults)
UnknownKitStyle == "metal"
UnknownTimeSignature == "2/4"

\* complexity and dynamics on both sides of, and on, the thresholds of the templates
ComplexityLevels == {0, 25, 35, 45, 50, 55, 60, 65, 75, 85, 100}
DynamicsLevels == {0, 25, 50, 65, 80}

\* the settings generatePattern is called with:
\*   every style, meter and length over the complexity/dynamics grid,
MainGrid ==
    [kitStyle : KitStyles, timeSignature : TimeSignatures, bpm : {120},
     bars : BAR_OPTIONS, complexity : ComplexityLevels, dynamics : DynamicsLevels]
\*   the ends of the tempo range (App.tsx: the slider's min and max),
BpmGrid ==
    [kitStyle : KitStyles, timeSignature : TimeSignatures, bpm : {60, 200},
     bars : BAR_OPTIONS, complexity : {50}, dynamics : {50}]
\*   and values outside the enumerations.
UnknownGrid ==
    [kitStyle : {UnknownKitStyle}, timeSignature : TimeSignatures \cup {UnknownTimeSignature},
     bpm : {120}, bars : BAR_OPTIONS, complexity : {25, 65, 85}, dynamics : {25, 80}]
    \cup
    [kitStyle : KitStyles, timeSignature : {UnknownTimeSignature},
     bpm : {120}, bars : BAR_OPTIONS, complexity : {25, 65, 85}, dynamics : {25, 80}]

\*   the eight-bar electronic pattern at complexity 0.7: above the breakdown
\*   threshold (0.6) and not above that of the offbeat snare (0.7)
BreakdownGrid ==
    [kitStyle : {"electronic"}, timeSignature : TimeSignatures, bpm : {120},
     bars : {8}, complexity : {70}, dynamics : DynamicsLevels]

GeneratorSettings == MainGrid \cup BpmGrid \cup UnknownGrid \cup BreakdownGrid

NoPattern == [hits |-> <<>>, lengthInBeats |-> 0, timeSignature |-> "", bpm |-> 0]

NoSettings == [kitStyle |-> "", timeSignature |-> "", bpm |-> 0, bars |-> 0,
               complexity |-> 0, dynamics |-> 0]

GenIdle ==
    /\ settingsIn = NoSettings
    /\ seedIn = 0
    /\ baseHits = <<>>
    /\ swungHits = <<>>
    /\ humanHits = <<>>
    /\ pattern = NoPattern

StageIdle ==
    /\ hitsIn = <<>>
    /\ swingAmountIn = 0
    /\ optionsIn = <<>>
    /\ dynamicsIn = 0
    /\ velocityOut = <<>>
    /\ patternIn = NoPattern
    /\ scheduled = <<>>
    /\ op = ""
    /\ hitsOut = <<>>
    /\ hitsAgain = <<>>

\* a reference to no Pattern (null), no kit (null) and no file
Null == 0
NoKit == "null"
NoFile == [kind |-> "", kitStyle |-> "", bpm |-> 0, ts |-> "", bars |-> 0]

\* App.tsx: the initial values of useState
AppInitialState ==
    [kitStyle |-> "rock", timeSignature |-> "4/4", bpm |-> 120, bars |-> 4,
     complexity |-> 50, dynamics |-> 50, pattern |-> Null,
     isPlaying |-> FALSE, isRendering |-> FALSE]

\* SampleDrums.ts: the field initializers of AudioEngine
EngineInitialState ==
    [currentKit |-> NoKit, kitStyle |-> "rock", scheduledEvents |-> 0,
     isPlaying |-> FALSE, currentPattern |-> Null, loopEnabled |-> TRUE]

\* Tone's transport before the engine has written to it (Tone's defaults)
TransportInitialState ==
    [state |-> "stopped", bpm |-> 120, loop |-> FALSE, loopEnd |-> <<0, 0>>]

AppIdle ==
    /\ app = AppInitialState
    /\ engine = EngineInitialState
    /\ transport = TransportInitialState
    /\ heap = <<>>
    /\ returned = <<>>
    /\ tasks = <<>>
    /\ output = NoFile
    /\ kits = <<>>

\* ------------------------------------------- generatePattern on its inputs
Init ==
    /\ settingsIn \in GeneratorSettings
    /\ seedIn \in Seeds
    /\ pc = "call"
    /\ baseHits = <<>>
    /\ swungHits = <<>>
    /\ humanHits = <<>>
    /\ pattern = NoPattern
    /\ StageIdle
    /\ AppIdle

\* generatePattern(settings)
GeneratePattern ==
    /\ pc = "call"
    /\ LET base == generateBasePattern(settingsIn, seedIn)
           swung == SwingStage(settingsIn, base)
           human == HumanizeStage(swung, seedIn)
       IN  /\ baseHits' = base
           /\ swungHits' = swung
           /\ humanHits' = human
           /\ pattern' = PatternOf(settingsIn, human)
    /\ pc' = "done"
    /\ UNCHANGED <<settingsIn, seedIn>>
    /\ UNCHANGED stageVars
    /\ UNCHANGED appVars

Next == GeneratePattern

Spec == Init /\ [][Next]_vars

\* --------------------------- the assembler (sort + deduplicateHits) on its own
SeqsUpTo(S, n) == UNION {[1..k -> S] : k \in 0..n}

\* hits on four times (in TU units) of which 1 and 2 round to the same 1/1000 beat
AssemblerHits ==
    [drum : {"kick", "snare"}, time : {0, 1, 2, 3}, velocity : {3 * (VU \div 10), 6 * (VU \div 10)},
     duration : {Beats(250)}]

InitAssembler ==
    /\ hitsIn \in SeqsUpTo(AssemblerHits, MaxLen)
    /\ pc = "call"
    /\ swingAmountIn = 0
    /\ optionsIn = <<>>
    /\ dynamicsIn = 0
    /\ velocityOut = <<>>
    /\ patternIn = NoPattern
    /\ scheduled = <<>>
    /\ op = ""
    /\ hitsOut = <<>>
    /\ hitsAgain = <<>>
    /\ GenIdle
    /\ AppIdle

\* hits.sort(...); hits = deduplicateHits(hits)   (generatePattern, lines 30-34)
CallAssemble ==
    /\ pc = "call"
    /\ hitsOut' = Assemble(hitsIn)
    /\ op' = "assemble"
    /\ pc' = "done"
    /\ UNCHANGED <<hitsIn, swingAmountIn, optionsIn, dynamicsIn, velocityOut, patternIn, scheduled,
                   hitsAgain>>
    /\ UNCHANGED genVars
    /\ UNCHANGED appVars

\* the same two statements on their own result
CallAssembleAgain ==
    /\ pc = "done"
    /\ op = "assemble"
    /\ hitsAgain' = Assemble(hitsOut)
    /\ pc' = "twice"
    /\ UNCHANGED <<hitsIn, swingAmountIn, optionsIn, dynamicsIn, velocityOut, patternIn, scheduled,
                   op, hitsOut>>
    /\ UNCHANGED genVars
    /\ UNCHANGED appVars

\* deduplicateHits(hitsIn)
CallDeduplicateHits ==
    /\ pc = "call"
    /\ hitsOut' = deduplicateHits(hitsIn)
    /\ op' = "dedup"
    /\ pc' = "done"
    /\ UNCHANGED <<hitsIn, swingAmountIn, optionsIn, dynamicsIn, velocityOut, patternIn, scheduled,
                   hitsAgain>>
    /\ UNCHANGED genVars
    /\ UNCHANGED appVars

NextAssembler == CallAssemble \/ CallAssembleAgain \/ CallDeduplicateHits

SpecAssembler == InitAssembler /\ [][NextAssembler]_vars

\* ------------------------------------------------- swingPattern on its own
\* times (time >= 0, as DrumHit requires) just outside and just inside the
\* window of 0.1 beat around the offbeat, on the offbeat and on the beat.  A
\* time at exactly 0.1 from the offbeat is left out: there the comparison of
\* the source is decided by the rounding of its doubles.
SwingHits ==
    [drum : {"kick", "ride"}, time : {Beats(400) - 1, Beats(400) + 1, Beats(1600) - 1,
                                      Beats(600) + 1, Beats(2500), Beats(3000)},
     velocity : {6 * (VU \div 10)}, duration : {Beats(250)}]

SwingAmounts == {0, 50, 60, 100}

InitSwing ==
    /\ hitsIn \in SeqsUpTo(SwingHits, MaxLen)
    /\ swingAmountIn \in SwingAmounts
    /\ optionsIn = <<>>
    /\ dynamicsIn = 0
    /\ velocityOut = <<>>
    /\ patternIn = NoPattern
    /\ scheduled = <<>>
    /\ pc = "call"
    /\ op = ""
    /\ hitsOut = <<>>
    /\ hitsAgain = <<>>
    /\ GenIdle
    /\ AppIdle

\* swingPattern(hitsIn, swingAmount)
CallSwingPattern ==
    /\ pc = "call"
    /\ hitsOut' = swingPattern(hitsIn, swingAmountIn)
    /\ op' = "swing"
    /\ pc' = "done"
    /\ UNCHANGED <<hitsIn, swingAmountIn, optionsIn, dynamicsIn, velocityOut, patternIn, scheduled,
                   hitsAgain>>
    /\ UNCHANGED genVars
    /\ UNCHANGED appVars

NextSwing == CallSwingPattern

SpecSwing == InitSwing /\ [][NextSwing]_vars

\* ---------------------------------------------- humanizePattern on its own
\* hits at and next to time 0 and at and next to both ends of the velocity range
HumanizeHits ==
    {Hit("kick", 0, 5 * (VU \div 10), Beats(250)),
     Hit("hihat", 2, 97 * (VU \div 100), Beats(250)),
     Hit("snare", Beats(1000), 97 * (VU \div 100), Beats(100)),
     Hit("snare", Beats(1000), VU, Beats(100)),
     Hit("ride", Beats(2500), 12 * (VU \div 100), Beats(300)),
     Hit("crash", Beats(4000), 5 * (VU \div 10), Beats(1000))}

\* the options a caller can pass: none, those of generatePattern, the extremes,
\* and enabled: false
HumanizeOptions ==
    {[enabled |-> TRUE],
     [timingVariation |-> 40, velocityVariation |-> 30, enabled |-> TRUE],
     [timingVariation |-> 100, velocityVariation |-> 100],
     [timingVariation |-> 0, velocityVariation |-> 0],
     [timingVariation |-> 100, enabled |-> FALSE]}

InitHumanize ==
    /\ hitsIn \in SeqsUpTo(HumanizeHits, MaxLen)
    /\ optionsIn \in HumanizeOptions
    /\ dynamicsIn = 0
    /\ velocityOut = <<>>
    /\ patternIn = NoPattern
    /\ scheduled = <<>>
    /\ seedIn \in Seeds
    /\ pc = "call"
    /\ swingAmountIn = 0
    /\ op = ""
    /\ hitsOut = <<>>
    /\ hitsAgain = <<>>
    /\ settingsIn = NoSettings
    /\ baseHits = <<>>
    /\ swungHits = <<>>
    /\ humanHits = <<>>
    /\ pattern = NoPattern
    /\ AppIdle

\* humanizePattern(hitsIn, optionsIn)
CallHumanizePattern ==
    /\ pc = "call"
    /\ hitsOut' = humanizePattern(hitsIn, optionsIn, seedIn)
    /\ op' = "humanize"
    /\ pc' = "done"
    /\ UNCHANGED <<hitsIn, swingAmountIn, optionsIn, dynamicsIn, velocityOut, patternIn, scheduled,
                   hitsAgain>>
    /\ UNCHANGED genVars
    /\ UNCHANGED appVars

NextHumanize == CallHumanizePattern

SpecHumanize == InitHumanize /\ [][NextHumanize]_vars

\* --------------------------------- the base velocities of the five templates
\* dynamics is a number in [0, 1]; the model takes every hundredth
InitBaseVelocity ==
    /\ dynamicsIn \in 0..100
    /\ velocityOut = <<>>
    /\ patternIn = NoPattern
    /\ scheduled = <<>>
    /\ pc = "call"
    /\ hitsIn = <<>>
    /\ swingAmountIn = 0
    /\ optionsIn = <<>>
    /\ op = ""
    /\ hitsOut = <<>>
    /\ hitsAgain = <<>>
    /\ GenIdle
    /\ AppIdle

TemplateBaseVelocity(kitStyle, dynamics) ==
    CASE kitStyle = "rock" -> RockBaseVelocity(dynamics)
      [] kitStyle = "jazz" -> JazzBaseVelocity(dynamics)
      [] kitStyle = "electronic" -> ElectronicBaseVelocity(dynamics)
      [] kitStyle = "latin" -> LatinBaseVelocity(dynamics)
      [] kitStyle = "lofi" -> LofiBaseVelocity(dynamics)

\* the template of kitStyle computes its baseVelocity from dynamicsIn
ComputeBaseVelocity(kitStyle) ==
    /\ pc = "call"
    /\ kitStyle \notin DOMAIN velocityOut
    /\ velocityOut' = velocityOut @@ (kitStyle :> TemplateBaseVelocity(kitStyle, dynamicsIn))
    /\ op' = "baseVelocity"
    /\ pc' = IF DOMAIN velocityOut' = KitStyles THEN "done" ELSE "call"
    /\ UNCHANGED <<hitsIn, swingAmountIn, optionsIn, dynamicsIn, patternIn, scheduled,
                   hitsOut, hitsAgain>>
    /\ UNCHANGED genVars
    /\ UNCHANGED appVars

NextBaseVelocity == \E kitStyle \in KitStyles : ComputeBaseVelocity(kitStyle)

SpecBaseVelocity == InitBaseVelocity /\ [][NextBaseVelocity]_vars

\* ------------------------------------- the App and the AudioEngine (SpecApp)
\* One step is what runs between two awaits: a handler from the event to its
\* first await (or to its end), or the continuation of a suspended call up to
\* the next await.  The awaits are those on Tone.start(), on the kit's
\* waitForLoad() and on renderToWav().  A Pattern is an object: `heap` maps the
\* references still held by the App, the engine or a suspended call to the
\* objects, and an object nothing refers to any more is dropped, as the
\* garbage collector does.

\* The controls that are operated in this specification are the Kit Style
\* select (two of its styles) and the BPM slider (its initial value and its
\* maximum).  The Time Signature and Bars selects and the XY pad, which only
\* store a setting for the next handleGenerate, are left where they start.
AppKitStyles == {"rock", "jazz"}
AppBpms == {120, 200}

\* the settings handleGenerate can pass to generatePattern, and what
\* generatePattern returns for each of them and each outcome of the random source
AppSettings ==
    [kitStyle : AppKitStyles, timeSignature : {AppInitialState.timeSignature},
     bpm : AppBpms, bars : {AppInitialState.bars},
     complexity : {AppInitialState.complexity}, dynamics : {AppInitialState.dynamics}]
GeneratedPatterns ==
    {[settings |-> generatorSettings, seed |-> sd,
      pattern |-> generatePattern(generatorSettings, sd)] :
        generatorSettings \in AppSettings, sd \in Seeds}

\* the state the methods of AudioEngine read and write
World == [engine |-> engine, transport |-> transport, heap |-> heap]

\* AudioEngine.getBeatsPerBar
EngineGetBeatsPerBar(timeSignature) ==
    CASE timeSignature = "3/4" -> Beats(3000)
      [] timeSignature = "4/4" -> Beats(4000)
      [] timeSignature = "5/4" -> Beats(5000)
      [] timeSignature = "6/8" -> Beats(6000)
      [] timeSignature = "7/8" -> Beats(3500)
      [] OTHER -> Beats(4000)

\* AudioEngine.stop
stop(w) ==
    [w EXCEPT !.transport.state = "stopped",
              !.engine.scheduledEvents = 0,
              !.engine.isPlaying = FALSE]

\* AudioEngine.setPattern: the engine keeps the reference it is given
setPattern(w, ref) ==
    [w EXCEPT !.engine.currentPattern = ref,
              !.transport.bpm = w.heap[ref].bpm]

\* AudioEngine.schedulePattern: one transport event per hit
schedulePattern(w, ref) ==
    IF w.engine.currentKit = NoKit THEN w
    ELSE [w EXCEPT !.engine.scheduledEvents = @ + Len(w.heap[ref].hits)]

\* AudioEngine.play
play(w) ==
    IF w.engine.currentPattern = Null \/ w.engine.currentKit = NoKit THEN w
    ELSE LET ref == w.engine.currentPattern
             p == w.heap[ref]
             w1 == [stop(w) EXCEPT !.engine.isPlaying = TRUE,
                                   !.transport.bpm = p.bpm]
             w2 == schedulePattern(w1, ref)
             beatsPerBar == EngineGetBeatsPerBar(p.timeSignature)
             w3 == IF w2.engine.loopEnabled
                   THEN [w2 EXCEPT !.transport.loop = TRUE,
                                   !.transport.loopEnd = <<p.lengthInBeats \div beatsPerBar,
                                                           p.lengthInBeats % beatsPerBar>>]
                   ELSE w2
         IN  [w3 EXCEPT !.transport.state = "started"]

\* AudioEngine.setBpm: writes the tempo to the transport and to the bpm field
\* of the Pattern object the engine refers to
setBpm(w, bpm) ==
    LET w1 == [w EXCEPT !.transport.bpm = bpm]
    IN  IF w1.engine.currentPattern # Null
        THEN [w1 EXCEPT !.heap[w1.engine.currentPattern].bpm = bpm]
        ELSE w1

\* schedulePattern: the `${bars}:${beats}:${sixteenths}` of a hit; bars and
\* beats are whole numbers, sixteenths is kept in 1/TU of a sixteenth
timeStr(hit, beatsPerBar) ==
    [bars |-> hit.time \div beatsPerBar,
     beats |-> (hit.time % beatsPerBar) \div TU,
     sixteenths |-> (hit.time % TU) * 4]

\* the timeStr arguments of the transport.schedule calls of schedulePattern
ScheduledTimes(currentKit, p) ==
    IF currentKit = NoKit THEN <<>>
    ELSE LET beatsPerBar == EngineGetBeatsPerBar(p.timeSignature)
         IN  [i \in DOMAIN p.hits |-> timeStr(p.hits[i], beatsPerBar)]

\* hit times on and off the beat, on and next to a bar line of 7/8, and off
\* the grid as humanize leaves them
ScheduleHits ==
    {Hit("kick", 0, VU \div 2, Beats(250)),
     Hit("snare", Beats(1000) + 13, VU \div 2, Beats(250)),
     Hit("kick", Beats(3500), VU \div 2, Beats(250)),
     Hit("snare", Beats(4000), VU \div 2, Beats(250)),
     Hit("hihat-closed", Beats(5250), VU \div 2, Beats(125)),
     Hit("crash", Beats(12000) - 7, VU \div 2, Beats(500))}

InitSchedule ==
    /\ \E hits \in SeqsUpTo(ScheduleHits, MaxLen) :
       \E timeSignature \in TimeSignatures \cup {UnknownTimeSignature} :
          patternIn = [hits |-> hits,
                       lengthInBeats |-> 4 * getBeatsPerBar(timeSignature),
                       timeSignature |-> timeSignature,
                       bpm |-> 120]
    /\ \E kit \in {NoKit, "rock"} :
          engine = [EngineInitialState EXCEPT !.currentKit = kit]
    /\ scheduled = <<>>
    /\ pc = "call"
    /\ hitsIn = <<>>
    /\ swingAmountIn = 0
    /\ optionsIn = <<>>
    /\ dynamicsIn = 0
    /\ velocityOut = <<>>
    /\ op = ""
    /\ hitsOut = <<>>
    /\ hitsAgain = <<>>
    /\ GenIdle
    /\ app = AppInitialState
    /\ transport = TransportInitialState
    /\ heap = <<>>
    /\ returned = <<>>
    /\ tasks = <<>>
    /\ output = NoFile
    /\ kits = <<>>

\* this.schedulePattern(patternIn)
CallSchedulePattern ==
    /\ pc = "call"
    /\ scheduled' = ScheduledTimes(engine.currentKit, patternIn)
    /\ engine' = [engine EXCEPT !.scheduledEvents = @ + Len(scheduled')]
    /\ op' = "schedule"
    /\ pc' = "done"
    /\ UNCHANGED <<hitsIn, swingAmountIn, optionsIn, dynamicsIn, velocityOut, patternIn,
                   hitsOut, hitsAgain>>
    /\ UNCHANGED genVars
    /\ UNCHANGED <<app, transport, heap, returned, tasks, output, kits>>

NextSchedule == CallSchedulePattern

SpecSchedule == InitSchedule /\ [][NextSchedule]_vars

\* AudioEngine.init after its await on Tone.start(): TRUE when it goes on to
\* create a kit and to await the kit's waitForLoad()
InitCreatesKit(w, newStyle) ==
    w.engine.currentKit = NoKit \/ newStyle # w.engine.kitStyle

\* ... and the kit it creates (the previous one is disposed of)
InitKit(w, newStyle) ==
    [w EXCEPT !.engine.kitStyle = newStyle, !.engine.currentKit = newStyle]

\* MidiExporter: getBeatsPerBar
MidiGetBeatsPerBar(timeSignature) ==
    CASE timeSignature = "3/4" -> Beats(3000)
      [] timeSignature = "4/4" -> Beats(4000)
      [] timeSignature = "5/4" -> Beats(5000)
      [] timeSignature = "6/8" -> Beats(6000)
      [] timeSignature = "7/8" -> Beats(3500)
      [] OTHER -> Beats(4000)

\* MidiExporter: generateFilename, as the parts the name is made of
generateFilename(p, kitStyle) ==
    [kitStyle |-> kitStyle, bpm |-> p.bpm, ts |-> p.timeSignature,
     bars |-> MathRound(p.lengthInBeats, MidiGetBeatsPerBar(p.timeSignature))]

\* the file of a download: its kind and its name
File(kind, p, kitStyle) ==
    LET name == generateFilename(p, kitStyle)
    IN  [kind |-> kind, kitStyle |-> name.kitStyle, bpm |-> name.bpm, ts |-> name.ts,
         bars |-> name.bars]

\* a suspended async call: the handler or method, the await it is at, and the
\* values its closure holds
Task(kind, at, style, flag, ref) ==
    [kind |-> kind, at |-> at, style |-> style, flag |-> flag, ref |-> ref]

\* the sequence without its i-th element
RemoveAt(seq, i) == SubSeq(seq, 1, i - 1) \o SubSeq(seq, i + 1, Len(seq))

\* a reference no live object has
NewRef(h) ==
    CHOOSE n \in 1..(Cardinality(DOMAIN h) + 1) :
        /\ n \notin DOMAIN h
        /\ \A m \in 1..(n - 1) : m \in DOMAIN h

\* the references held by the component's state, the engine and the closures
Roots(a, w, ts) ==
    ({a.pattern, w.engine.currentPattern} \cup {ts[i].ref : i \in DOMAIN ts}) \ {Null}

\* the step's result: the new state, without the objects nothing refers to
Commit(a, w, ret, ts, file) ==
    LET live == Roots(a, w, ts) \cap DOMAIN w.heap
    IN  /\ app' = a
        /\ engine' = w.engine
        /\ transport' = w.transport
        /\ heap' = [r \in live |-> w.heap[r]]
        /\ returned' = [r \in live |-> ret[r]]
        /\ tasks' = ts
        /\ output' = file
        /\ UNCHANGED <<pc, genVars, stageVars, kits>>

\* the body of handleGenerate on the component state `a` and the world `w`:
\* the new component state, world and record of returned Patterns
Generate(a, w, ret, sd) ==
    LET w1 == stop(w)
        generatorSettings ==
            [kitStyle |-> a.kitStyle, timeSignature |-> a.timeSignature, bpm |-> a.bpm,
             bars |-> a.bars, complexity |-> a.complexity, dynamics |-> a.dynamics]
        newPattern == (CHOOSE g \in GeneratedPatterns :
                          g.settings = generatorSettings /\ g.seed = sd).pattern
        ref == NewRef(w1.heap)
        w2 == [w1 EXCEPT !.heap = (ref :> newPattern) @@ w1.heap]
    IN  [app |-> [a EXCEPT !.isPlaying = FALSE, !.pattern = ref],
         world |-> setPattern(w2, ref),
         returned |-> (ref :> newPattern) @@ ret]

InitApp ==
    /\ pc = "app"
    /\ GenIdle
    /\ StageIdle
    /\ AppIdle

\* the Generate button
handleGenerate ==
    /\ pc = "app"
    /\ \E sd \in Seeds :
          LET g == Generate(app, World, returned, sd)
          IN  Commit(g.app, g.world, g.returned, tasks, NoFile)

\* the Play/Stop button (disabled while there is no pattern and nothing plays),
\* up to the await on Tone.start() in AudioEngine.init
handlePlay ==
    /\ app.pattern # Null \/ app.isPlaying
    /\ Len(tasks) < MaxTasks
    /\ \E sd \in Seeds :
          LET g == IF app.pattern = Null
                   THEN Generate(app, World, returned, sd)
                   ELSE [app |-> app, world |-> World, returned |-> returned]
              task == Task("handlePlay", "Tone.start", app.kitStyle, app.isPlaying,
                           app.pattern)
          IN  Commit(g.app, g.world, g.returned, Append(tasks, task), NoFile)

\* what the caller of AudioEngine.init does once init has resolved:
\* handlePlay toggles on the isPlaying its closure holds, setKitStyle restarts
\* the playback it stopped
AfterInit(a, w, task) ==
    IF task.kind = "handlePlay"
    THEN IF task.flag
         THEN [app |-> [a EXCEPT !.isPlaying = FALSE], world |-> stop(w)]
         ELSE [app |-> [a EXCEPT !.isPlaying = TRUE], world |-> play(w)]
    ELSE IF task.flag /\ w.engine.currentPattern # Null
         THEN [app |-> a, world |-> play(w)]
         ELSE [app |-> a, world |-> w]

\* Tone.start() resolves: AudioEngine.init goes on, to the await on the new
\* kit's waitForLoad() or, when it keeps the kit, to its end and on into its caller
ToneStarted ==
    \E i \in DOMAIN tasks :
        /\ tasks[i].at = "Tone.start"
        /\ IF InitCreatesKit(World, tasks[i].style)
           THEN Commit(app, InitKit(World, tasks[i].style), returned,
                       [tasks EXCEPT ![i].at = "waitForLoad"], NoFile)
           ELSE LET r == AfterInit(app, World, tasks[i])
                IN  Commit(r.app, r.world, returned, RemoveAt(tasks, i), NoFile)

\* the kit's waitForLoad() resolves: init ends and its caller goes on
KitLoaded ==
    \E i \in DOMAIN tasks :
        /\ tasks[i].at = "waitForLoad"
        /\ LET r == AfterInit(app, World, tasks[i])
           IN  Commit(r.app, r.world, returned, RemoveAt(tasks, i), NoFile)

\* the Reset button (shown while isPlaying)
handleStop ==
    /\ app.isPlaying
    /\ Commit([app EXCEPT !.isPlaying = FALSE], stop(World), returned, tasks, NoFile)

\* the Download MIDI button (disabled while there is no pattern)
handleDownloadMidi ==
    /\ app.pattern # Null
    /\ Commit(app, World, returned, tasks, File("midi", heap[app.pattern], app.kitStyle))

\* the Download WAV button (disabled while there is no pattern and while
\* rendering), up to the await on renderToWav
handleDownloadWav ==
    /\ app.pattern # Null
    /\ ~app.isRendering
    /\ Len(tasks) < MaxTasks
    /\ Commit([app EXCEPT !.isRendering = TRUE], World, returned,
              Append(tasks, Task("handleDownloadWav", "renderToWav", app.kitStyle, FALSE,
                                 app.pattern)),
              NoFile)

\* renderToWav resolves: the file is named after the pattern and the style the
\* closure holds, and isRendering is cleared
WavRendered ==
    \E i \in DOMAIN tasks :
        /\ tasks[i].at = "renderToWav"
        /\ Commit([app EXCEPT !.isRendering = FALSE], World, returned, RemoveAt(tasks, i),
                  File("wav", heap[tasks[i].ref], tasks[i].style))

\* the BPM slider
handleBpmChange ==
    \E newBpm \in AppBpms :
        /\ newBpm # app.bpm
        /\ Commit([app EXCEPT !.bpm = newBpm], setBpm(World, newBpm), returned, tasks, NoFile)

\* the Kit Style select: handleKitChange and AudioEngine.setKitStyle, up to the
\* await on Tone.start() in AudioEngine.init
handleKitChange ==
    \E newKit \in AppKitStyles :
        /\ newKit # app.kitStyle
        /\ IF newKit # engine.kitStyle
           THEN /\ Len(tasks) < MaxTasks
                /\ LET wasPlaying == engine.isPlaying
                       w == IF wasPlaying THEN stop(World) ELSE World
                   IN  Commit([app EXCEPT !.kitStyle = newKit], w, returned,
                              Append(tasks, Task("setKitStyle", "Tone.start", newKit,
                                                 wasPlaying, Null)),
                              NoFile)
           ELSE Commit([app EXCEPT !.kitStyle = newKit], World, returned, tasks, NoFile)

NextApp ==
    \/ handleGenerate
    \/ handlePlay
    \/ ToneStarted
    \/ KitLoaded
    \/ handleStop
    \/ handleDownloadMidi
    \/ handleDownloadWav
    \/ WavRendered
    \/ handleBpmChange
    \/ handleKitChange

SpecApp == InitApp /\ [][NextApp]_vars

\* ------------------------------------- AudioEngine with its kits as objects
\* Here a kit is an object: kits[k] is the k-th kit the engine constructed, with
\* the style of its class, whether its samples have finished loading and
\* whether dispose() was called on it.  engine.currentKit is a reference into
\* kits (Null for null), and a Pattern is only a reference.  s is the pair of
\* the engine's fields and the kits.

\* init() called without an argument
NoStyle == ""

\* new ...DrumKit(this.masterGain): the constructor starts loading the samples
Kit(style) == [style |-> style, loaded |-> FALSE, disposed |-> FALSE]

\* the switch of AudioEngine.init
NewKit(newStyle) ==
    CASE newStyle = "electronic" -> Kit("electronic")
      [] newStyle = "jazz" -> Kit("jazz")
      [] newStyle = "latin" -> Kit("latin")
      [] newStyle = "lofi" -> Kit("lofi")
      [] OTHER -> Kit("rock")

\* this.currentKit?.dispose()
disposeCurrentKit(s) ==
    IF s.engine.currentKit = Null THEN s.kits
    ELSE [s.kits EXCEPT ![s.engine.currentKit].disposed = TRUE]

\* init, if it did not dispose of the kit it replaces
init_KeepsOldKit(s, kitStyle) ==
    LET newStyle == IF kitStyle = NoStyle THEN s.engine.kitStyle ELSE kitStyle
    IN  IF s.engine.currentKit = Null \/ newStyle # s.engine.kitStyle
        THEN [engine |-> [s.engine EXCEPT !.kitStyle = newStyle,
                                          !.currentKit = Len(s.kits) + 1],
              kits |-> Append(s.kits, NewKit(newStyle))]
        ELSE s

\* AudioEngine.init from Tone.start() resolving up to its second await or, when
\* it keeps the kit, to its end
init(s, kitStyle) ==
    LET newStyle == IF kitStyle = NoStyle THEN s.engine.kitStyle ELSE kitStyle
    IN  IF s.engine.currentKit = Null \/ newStyle # s.engine.kitStyle
        THEN [engine |-> [s.engine EXCEPT !.kitStyle = newStyle,
                                          !.currentKit = Len(s.kits) + 1],
              kits |-> Append(disposeCurrentKit(s), NewKit(newStyle))]
        ELSE s

\* AudioEngine.stop, on the engine's fields
stopEngine(e) == [e EXCEPT !.scheduledEvents = 0, !.isPlaying = FALSE]

\* AudioEngine.play, on the engine's fields (one event stands for the
\* pattern's hits)
playEngine(e) ==
    IF e.currentPattern = Null \/ e.currentKit = Null THEN e
    ELSE [stopEngine(e) EXCEPT !.isPlaying = TRUE, !.scheduledEvents = 1]

\* what the caller of init does once init has resolved: handlePlay toggles on
\* the isPlaying its closure holds, setKitStyle restarts the playback it
\* stopped, previewDrum triggers a drum of the current kit
Resume(a, e, task) ==
    CASE task.kind = "handlePlay" ->
            IF task.flag
            THEN [app |-> [a EXCEPT !.isPlaying = FALSE], engine |-> stopEngine(e)]
            ELSE [app |-> [a EXCEPT !.isPlaying = TRUE], engine |-> playEngine(e)]
      [] task.kind = "setKitStyle" ->
            IF task.flag /\ e.currentPattern # Null
            THEN [app |-> a, engine |-> playEngine(e)]
            ELSE [app |-> a, engine |-> e]
      [] OTHER -> [app |-> a, engine |-> e]

KitsUnchanged == UNCHANGED <<pc, genVars, stageVars, transport, heap, returned, output>>

InitKits ==
    /\ pc = "kits"
    /\ GenIdle
    /\ StageIdle
    /\ app = AppInitialState
    /\ engine = [EngineInitialState EXCEPT !.currentKit = Null]
    /\ transport = TransportInitialState
    /\ heap = <<>>
    /\ returned = <<>>
    /\ tasks = <<>>
    /\ output = NoFile
    /\ kits = <<>>

\* the Generate button: handleGenerate stops the engine and hands it a new
\* Pattern
GenerateClicked ==
    /\ app' = [app EXCEPT !.isPlaying = FALSE, !.pattern = 1]
    /\ engine' = [stopEngine(engine) EXCEPT !.currentPattern = 1]
    /\ UNCHANGED <<tasks, kits>>
    /\ KitsUnchanged

\* the Reset button (shown while isPlaying)
ResetClicked ==
    /\ app.isPlaying
    /\ app' = [app EXCEPT !.isPlaying = FALSE]
    /\ engine' = stopEngine(engine)
    /\ UNCHANGED <<tasks, kits>>
    /\ KitsUnchanged

\* the Play/Stop button (disabled while there is no pattern and nothing plays):
\* handlePlay up to the await on Tone.start() in init; without a pattern it
\* generates one first
PlayClicked ==
    /\ app.pattern # Null \/ app.isPlaying
    /\ Len(tasks) < MaxCalls
    /\ LET generates == app.pattern = Null
           ref == IF generates THEN 1 ELSE app.pattern
       IN  /\ app' = IF generates THEN [app EXCEPT !.isPlaying = FALSE, !.pattern = ref]
                      ELSE app
           /\ engine' = IF generates
                         THEN [stopEngine(engine) EXCEPT !.currentPattern = ref]
                         ELSE engine
           /\ tasks' = Append(tasks, Task("handlePlay", "Tone.start", app.kitStyle,
                                          app.isPlaying, Null))
    /\ UNCHANGED kits
    /\ KitsUnchanged

\* the Kit Style select: handleKitChange and AudioEngine.setKitStyle, up to the
\* await on Tone.start() in init
KitSelected ==
    \E newKit \in AppKitStyles :
        /\ newKit # app.kitStyle
        /\ app' = [app EXCEPT !.kitStyle = newKit]
        /\ IF newKit # engine.kitStyle
           THEN /\ Len(tasks) < MaxCalls
                /\ LET wasPlaying == engine.isPlaying
                   IN  /\ engine' = IF wasPlaying THEN stopEngine(engine) ELSE engine
                       /\ tasks' = Append(tasks, Task("setKitStyle", "Tone.start", newKit,
                                                      wasPlaying, Null))
           ELSE UNCHANGED <<engine, tasks>>
        /\ UNCHANGED kits
        /\ KitsUnchanged

\* AudioEngine.previewDrum, up to the await on Tone.start() in init
previewDrum ==
    /\ Len(tasks) < MaxCalls
    /\ tasks' = Append(tasks, Task("previewDrum", "Tone.start", NoStyle, FALSE, Null))
    /\ UNCHANGED <<app, engine, kits>>
    /\ KitsUnchanged

\* Tone.start() resolves for one of the calls: its init goes on, to the await
\* on the new kit's waitForLoad() or, when it keeps the kit, to its end and on
\* into its caller
StartResolved ==
    \E i \in DOMAIN tasks :
        /\ tasks[i].at = "Tone.start"
        /\ LET s == init([engine |-> engine, kits |-> kits], tasks[i].style)
           IN  IF s.kits # kits
               THEN /\ Len(kits) < MaxKits
                    /\ kits' = s.kits
                    /\ engine' = s.engine
                    /\ tasks' = [tasks EXCEPT ![i].at = "waitForLoad",
                                              ![i].ref = s.engine.currentKit]
                    /\ UNCHANGED app
               ELSE LET r == Resume(app, engine, tasks[i])
                    IN  /\ app' = r.app
                        /\ engine' = r.engine
                        /\ tasks' = RemoveAt(tasks, i)
                        /\ UNCHANGED kits
        /\ KitsUnchanged

\* the samples of the kit a call waits for have loaded: its waitForLoad()
\* resolves, init ends and its caller goes on
LoadResolved ==
    \E i \in DOMAIN tasks :
        /\ tasks[i].at = "waitForLoad"
        /\ kits' = [kits EXCEPT ![tasks[i].ref].loaded = TRUE]
        /\ LET r == Resume(app, engine, tasks[i])
           IN  /\ app' = r.app
               /\ engine' = r.engine
               /\ tasks' = RemoveAt(tasks, i)
        /\ KitsUnchanged

NextKits ==
    \/ GenerateClicked
    \/ ResetClicked
    \/ PlayClicked
    \/ KitSelected
    \/ previewDrum
    \/ StartResolved
    \/ LoadResolved

SpecKits == InitKits /\ [][NextKits]_vars

\* ------------------------------------------------------------------ claims
\* the quantities the claims are stated in, written independently of the model
\* of the code above
ClaimMs(time) == (2 * time * 1000 + TU) \div (2 * TU)       \* round(time x 1000)
ClaimKey(hit) == <<hit.drum, ClaimMs(hit.time)>>
ClaimJitter == (3 * 4 * TU) \div 1000                       \* 0.03 x 0.4 beats
ClaimBeatsPerBar(timeSignature) ==                          \* in TU units
    CASE timeSignature = "3/4" -> 3 * TU
      [] timeSignature = "4/4" -> 4 * TU
      [] timeSignature = "5/4" -> 5 * TU
      [] timeSignature = "6/8" -> 6 * TU
      [] timeSignature = "7/8" -> (7 * TU) \div 2

Returned == pc = "done"

\* C1: the hits of the Pattern returned by generatePattern are sorted
\* non-decreasing by time, for every settings value and random outcome.
C1_SortedByTime ==
    Returned =>
        \A i \in 1..(Len(pattern.hits) - 1) : pattern.hits[i].time <= pattern.hits[i + 1].time

\* C1 witness: a returned pattern whose hits were out of time order before the sort
C1_Witness ==
    /\ Returned
    /\ Len(pattern.hits) > 1
    /\ \E i \in 1..(Len(humanHits) - 1) : humanHits[i].time > humanHits[i + 1].time

\* C2: no two distinct hits of the returned Pattern have the same pair
\* (drum, round(time x 1000)).
C2_NoDuplicateKeys ==
    Returned =>
        Cardinality({ClaimKey(pattern.hits[i]) : i \in DOMAIN pattern.hits}) = Len(pattern.hits)

\* C2 witness: two humanized hits with different stored times shared a pair,
\* and the returned pattern holds fewer hits than were humanized
C2_Witness ==
    /\ Returned
    /\ Len(pattern.hits) < Len(humanHits)
    /\ \E i, j \in DOMAIN humanHits :
          /\ humanHits[i].drum = humanHits[j].drum
          /\ humanHits[i].time # humanHits[j].time
          /\ ClaimMs(humanHits[i].time) = ClaimMs(humanHits[j].time)

\* C3: every hit of the returned Pattern has time >= 0, velocity in
\* [0.1, 1.0] and duration > 0, also when the template's velocity is below 0.1.
C3_HitBounds ==
    Returned =>
        \A i \in DOMAIN pattern.hits :
            /\ pattern.hits[i].time >= 0
            /\ 10 * pattern.hits[i].velocity >= VU
            /\ pattern.hits[i].velocity <= VU
            /\ pattern.hits[i].duration > 0

\* C3 witness: the template emitted a hit with velocity below 0.1, and a hit
\* was clamped at time 0
C3_Witness ==
    /\ Returned
    /\ \E i \in DOMAIN baseHits : 10 * baseHits[i].velocity < VU
    /\ \E i \in DOMAIN pattern.hits : pattern.hits[i].time = 0

\* C4: the assembly stage (sort by time, then deduplicateHits) is idempotent:
\* applied to its own output it returns the same hits in the same order.
C4_AssembleIdempotent == pc = "twice" => hitsAgain = hitsOut

\* C4 witness: the assembler was applied twice to a sequence that its first
\* application reordered and shortened to two or more hits
C4_Witness ==
    /\ pc = "twice"
    /\ Len(hitsOut) >= 2
    /\ Len(hitsOut) < Len(hitsIn)
    /\ \E i \in DOMAIN hitsOut : hitsOut[i] # hitsIn[i]

\* C5: deduplicateHits returns exactly one hit per group of input hits sharing
\* (drum, round(time x 1000)); it is an unmodified member of the group and has
\* the maximum velocity of the group.
C5_DedupKeepsLoudest ==
    (pc = "done" /\ op = "dedup") =>
        LET keysIn == {ClaimKey(hitsIn[i]) : i \in DOMAIN hitsIn}
        IN  /\ Len(hitsOut) = Cardinality(keysIn)
            /\ \A key \in keysIn :
                  LET group == {hitsIn[i] : i \in {n \in DOMAIN hitsIn :
                                                     ClaimKey(hitsIn[n]) = key}}
                      kept  == {j \in DOMAIN hitsOut : ClaimKey(hitsOut[j]) = key}
                  IN  /\ Cardinality(kept) = 1
                      /\ \A j \in kept :
                            /\ hitsOut[j] \in group
                            /\ \A h \in group : h.velocity <= hitsOut[j].velocity

\* C5 witness: a group of two hits with different times in which the later
\* hit is the louder one, kept with its time off the 1/1000-beat grid
C5_Witness ==
    /\ pc = "done"
    /\ op = "dedup"
    /\ \E i, j \in DOMAIN hitsIn :
          /\ i < j
          /\ ClaimKey(hitsIn[i]) = ClaimKey(hitsIn[j])
          /\ hitsIn[i].time # hitsIn[j].time
          /\ hitsIn[i].velocity < hitsIn[j].velocity
          /\ hitsIn[j].time * 1000 # ClaimMs(hitsIn[j].time) * TU
          /\ hitsIn[j] \in Range(hitsOut)

\* C6: when the template emits two hits with the same drum at the same time,
\* the returned Pattern contains at most one hit of that drum at that
\* position: of the hits the pipeline made of such a group (swung and
\* humanized, in the order of the template), at most one is in the output.
C6_TemplateDuplicatesCollapse ==
    Returned =>
        \A i \in DOMAIN baseHits :
            LET group == {j \in DOMAIN baseHits :
                            /\ baseHits[j].drum = baseHits[i].drum
                            /\ baseHits[j].time = baseHits[i].time}
            IN  Cardinality(group) >= 2
                => Cardinality({k \in DOMAIN pattern.hits :
                                  \E j \in group : pattern.hits[k] = humanHits[j]}) <= 1

\* C7: once generatePattern has returned a Pattern, no later operation changes
\* any field of that Pattern object: every Pattern object that is still
\* referenced is as generatePattern returned it.
C7_PatternNeverMutated == \A ref \in DOMAIN heap : heap[ref] = returned[ref]

\* C8: lengthInBeats = bars x beatsPerBar(timeSignature) for the five time
\* signatures, and the Pattern carries the settings' timeSignature and bpm.
C8_LengthAndMetadata ==
    (Returned /\ settingsIn.timeSignature \in TimeSignatures) =>
        /\ pattern.lengthInBeats = settingsIn.bars * ClaimBeatsPerBar(settingsIn.timeSignature)
        /\ pattern.timeSignature = settingsIn.timeSignature
        /\ pattern.bpm = settingsIn.bpm

\* C8 witness: a returned 8-bar pattern in 7/8 (3.5 beats per bar) at 200 bpm
C8_Witness ==
    /\ Returned
    /\ settingsIn.timeSignature = "7/8"
    /\ settingsIn.bars = 8
    /\ settingsIn.bpm = 200

\* C9: swingPattern returns one hit per input hit in the same order; a hit
\* whose (time mod 1) is within 0.1 of 0.5 is moved later by 0.17 x amount,
\* every other time is unchanged; drum, velocity and duration are unchanged.
C9_SwingShiftsOffbeats ==
    (pc = "done" /\ op = "swing") =>
        /\ Len(hitsOut) = Len(hitsIn)
        /\ \A i \in DOMAIN hitsIn :
              LET nearOffbeat == 10 * Abs(2 * (hitsIn[i].time % TU) - TU) < 2 * TU
              IN  /\ hitsOut[i].drum = hitsIn[i].drum
                  /\ hitsOut[i].velocity = hitsIn[i].velocity
                  /\ hitsOut[i].duration = hitsIn[i].duration
                  /\ hitsOut[i].time = hitsIn[i].time
                        + (IF nearOffbeat THEN (17 * swingAmountIn * TU) \div 10000 ELSE 0)

\* C9 witness: swingPattern with amount 0.6 moved one hit and left another
\* hit of the same sequence where it was
C9_Witness ==
    /\ pc = "done"
    /\ op = "swing"
    /\ swingAmountIn = 60
    /\ \E i, j \in DOMAIN hitsIn :
          /\ hitsOut[i].time > hitsIn[i].time
          /\ hitsOut[j].time = hitsIn[j].time

\* C10: outside jazz and lofi the swing stage is skipped: every returned hit
\* is a humanized hit lying within the humanization bound of the time its
\* template emitted; a hit is displaced by the swing stage only for jazz, by
\* 0.17 x 0.6, and for lofi, by 0.17 x 0.5.
C10_SwingOnlyJazzLofi ==
    Returned =>
        /\ settingsIn.kitStyle \notin {"jazz", "lofi"} =>
              Range(pattern.hits) \subseteq
                  {humanHits[i] : i \in {k \in DOMAIN humanHits :
                        Abs(humanHits[k].time - baseHits[k].time) <= ClaimJitter}}
        /\ \A i \in DOMAIN baseHits :
              swungHits[i].time # baseHits[i].time =>
                  \/ /\ settingsIn.kitStyle = "jazz"
                     /\ swungHits[i].time - baseHits[i].time = (17 * 60 * TU) \div 10000
                  \/ /\ settingsIn.kitStyle = "lofi"
                     /\ swungHits[i].time - baseHits[i].time = (17 * 50 * TU) \div 10000

\* C10 witness: a pattern returned for a style other than jazz and lofi, in
\* 7/8, whose template emitted a hit on a straight-eighth offbeat
C10_Witness ==
    /\ Returned
    /\ settingsIn.kitStyle \notin {"jazz", "lofi"}
    /\ settingsIn.timeSignature = "7/8"
    /\ \E i \in DOMAIN baseHits : baseHits[i].time % TU = TU \div 2

\* the options humanizePattern works with: the caller's over the defaults
ClaimOptions ==
    [f \in {"timingVariation", "velocityVariation", "enabled"} |->
        IF f \in DOMAIN optionsIn THEN optionsIn[f]
        ELSE IF f = "enabled" THEN TRUE ELSE 50]
ClaimClamp(velocity) ==
    IF velocity < VU \div 10 THEN VU \div 10 ELSE IF velocity > VU THEN VU ELSE velocity
ClaimFloor(time) == IF time < 0 THEN 0 ELSE time

\* C11: humanizePattern with enabled = true returns one hit per input hit in
\* the same order, with the same drum and duration, time = max(0, time + dt)
\* for some |dt| <= 0.03 x timingVariation and velocity = clamp(velocity + dv,
\* 0.1, 1) for some |dv| <= 0.15 x velocityVariation.  (max and clamp are
\* monotone and the offsets range over an interval of the grid, so "for some
\* offset" is: between the results for the two extreme offsets.)
C11_HumanizeWithinBounds ==
    (pc = "done" /\ op = "humanize" /\ ClaimOptions.enabled) =>
        LET maxDt == (3 * TU * ClaimOptions.timingVariation) \div 10000
            maxDv == (15 * ClaimOptions.velocityVariation * VU) \div 10000
        IN  /\ Len(hitsOut) = Len(hitsIn)
            /\ \A i \in DOMAIN hitsIn :
                  /\ hitsOut[i].drum = hitsIn[i].drum
                  /\ hitsOut[i].duration = hitsIn[i].duration
                  /\ ClaimFloor(hitsIn[i].time - maxDt) <= hitsOut[i].time
                  /\ hitsOut[i].time <= ClaimFloor(hitsIn[i].time + maxDt)
                  /\ ClaimClamp(hitsIn[i].velocity - maxDv) <= hitsOut[i].velocity
                  /\ hitsOut[i].velocity <= ClaimClamp(hitsIn[i].velocity + maxDv)

\* C11 witness: a call with enabled = true and full variation in which one hit
\* was held at time 0, one at velocity 1, one at velocity 0.1 and one was moved
\* in time and velocity
C11_Witness ==
    /\ pc = "done"
    /\ op = "humanize"
    /\ ClaimOptions.enabled
    /\ ClaimOptions.timingVariation = 100
    /\ \E i, j, k, l \in DOMAIN hitsIn :
          /\ hitsIn[i].time > 0 /\ hitsOut[i].time = 0
          /\ hitsIn[j].velocity < VU /\ hitsOut[j].velocity = VU
          /\ hitsIn[l].velocity > VU \div 10 /\ hitsOut[l].velocity = VU \div 10
          /\ hitsOut[k].time # hitsIn[k].time
          /\ hitsOut[k].velocity # hitsIn[k].velocity
          /\ hitsOut[k].time > 0
          /\ hitsOut[k].velocity \in (VU \div 10 + 1)..(VU - 1)

\* C12: generatePattern returns a Pattern for values outside the enumerations.
\* With an unknown kitStyle the Pattern is, draw for draw, the one returned for
\* kitStyle = "rock" (and the swing step leaves the hits alone); with an unknown
\* timeSignature the hits and lengthInBeats are those of 4/4, 4 beats per bar.
C12_UnknownValuesFallBack ==
    Returned =>
        /\ (settingsIn.kitStyle \notin KitStyles) =>
              /\ pattern = generatePattern([settingsIn EXCEPT !.kitStyle = "rock"], seedIn)
              /\ swungHits = baseHits
        /\ (settingsIn.timeSignature \notin TimeSignatures) =>
              LET common == generatePattern([settingsIn EXCEPT !.timeSignature = "4/4"], seedIn)
              IN  /\ pattern.hits = common.hits
                  /\ pattern.lengthInBeats = common.lengthInBeats
                  /\ pattern.lengthInBeats = settingsIn.bars * 4 * TU

\* C12 witness: a Pattern returned for an unknown kitStyle and an unknown
\* timeSignature at once, two bars long
C12_Witness ==
    /\ Returned
    /\ settingsIn.kitStyle \notin KitStyles
    /\ settingsIn.timeSignature \notin TimeSignatures
    /\ settingsIn.bars = 2
    /\ Len(pattern.hits) > 4
    /\ \E i \in DOMAIN pattern.hits : pattern.hits[i].time > 4 * TU

\* the positions in the returned Pattern of the hits of a drum, and of those
\* within the jitter of generatePattern's humanize step of a time
ClaimHitsOf(drum) == {i \in DOMAIN pattern.hits : pattern.hits[i].drum = drum}
ClaimHitsNear(drum, time) ==
    {i \in ClaimHitsOf(drum) : Abs(pattern.hits[i].time - time) <= ClaimJitter}
ClaimRockBasic ==
    /\ Returned
    /\ settingsIn.kitStyle = "rock"
    /\ settingsIn.timeSignature = "4/4"
    /\ settingsIn.bars = 1
    /\ settingsIn.complexity = 0
    /\ settingsIn.dynamics = 0
ClaimRockKicksAndCrash ==
    /\ Cardinality(ClaimHitsNear("kick", 0)) = 1
    /\ Cardinality(ClaimHitsNear("kick", 2 * TU)) = 1
    /\ Cardinality(ClaimHitsOf("kick")) = 2
    /\ ClaimHitsNear("crash", 0) # {}

\* C13 as stated: for rock, 4/4, one bar, complexity 0, dynamics 0 the Pattern
\* has one kick near time 0, one near time 2 and no other, exactly one snare,
\* near time 1, and a crash near time 0.
C13_RockOneSnare ==
    ClaimRockBasic =>
        /\ ClaimRockKicksAndCrash
        /\ Cardinality(ClaimHitsOf("snare")) = 1
        /\ Cardinality(ClaimHitsNear("snare", TU)) = 1

\* C13 amended: as above, but the snare plays the whole backbeat: exactly two
\* snares, one near time 1 and one near time 3 (no ghost notes); the template
\* itself puts them exactly there, and the kicks exactly at 0 and 2.
C13_RockBackbeat ==
    ClaimRockBasic =>
        /\ ClaimRockKicksAndCrash
        /\ Cardinality(ClaimHitsOf("snare")) = 2
        /\ Cardinality(ClaimHitsNear("snare", TU)) = 1
        /\ Cardinality(ClaimHitsNear("snare", 3 * TU)) = 1
        /\ {baseHits[i].time : i \in {j \in DOMAIN baseHits : baseHits[j].drum = "snare"}}
              = {TU, 3 * TU}
        /\ {baseHits[i].time : i \in {j \in DOMAIN baseHits : baseHits[j].drum = "kick"}}
              = {0, 2 * TU}

\* C13 witness: such a Pattern was returned, with its timing moved by humanize
C13_Witness ==
    /\ ClaimRockBasic
    /\ ClaimHitsOf("snare") # {}
    /\ \E i \in ClaimHitsOf("kick") : pattern.hits[i].time \notin {0, 2 * TU}

\* C14: for electronic, 8 bars and complexity above 0.6, in every time
\* signature, no kick of the returned Pattern has its time in the span
\* [7 x beatsPerBar, 8 x beatsPerBar) of the breakdown bar.
C14_NoKickInBreakdown ==
    (/\ Returned
     /\ settingsIn.kitStyle = "electronic"
     /\ settingsIn.timeSignature \in TimeSignatures
     /\ settingsIn.bars = 8
     /\ settingsIn.complexity > 60) =>
        LET beatsPerBar == ClaimBeatsPerBar(settingsIn.timeSignature)
        IN  \A i \in ClaimHitsOf("kick") :
                ~ (/\ 7 * beatsPerBar <= pattern.hits[i].time
                   /\ pattern.hits[i].time < 8 * beatsPerBar)

\* C15: for electronic, 8 bars, complexity 0.7, the snare hits of bar index 7
\* of the returned Pattern, read in time order, have strictly increasing
\* velocities.  (pattern.hits is sorted by time, C1.)
C15_RollVelocityAscending ==
    (/\ Returned
     /\ settingsIn.kitStyle = "electronic"
     /\ settingsIn.timeSignature \in TimeSignatures
     /\ settingsIn.bars = 8
     /\ settingsIn.complexity = 70) =>
        LET beatsPerBar == ClaimBeatsPerBar(settingsIn.timeSignature)
            roll == {i \in ClaimHitsOf("snare") :
                        /\ 7 * beatsPerBar <= pattern.hits[i].time
                        /\ pattern.hits[i].time < 8 * beatsPerBar}
        IN  \A i, j \in roll :
                i < j => pattern.hits[i].velocity < pattern.hits[j].velocity

\* the kick and snare hits the template emitted in the span of a bar, as
\* (drum, position relative to the start of the bar)
ClaimBarPhrase(bar) ==
    LET beatsPerBar == ClaimBeatsPerBar(settingsIn.timeSignature)
    IN  {<<baseHits[i].drum, baseHits[i].time - bar * beatsPerBar>> :
            i \in {j \in DOMAIN baseHits :
                      /\ baseHits[j].drum \in {"kick", "snare"}
                      /\ bar * beatsPerBar <= baseHits[j].time
                      /\ baseHits[j].time < (bar + 1) * beatsPerBar}}
ClaimLatinTwoBars ==
    /\ Returned
    /\ settingsIn.kitStyle = "latin"
    /\ settingsIn.timeSignature \in TimeSignatures
    /\ settingsIn.bars = 2

\* C16 as stated: for latin and 2 bars, in every time signature, the set of
\* bar-relative kick and snare positions emitted for bar 0 differs from the
\* set emitted for bar 1.
C16_ClaveSidesDiffer ==
    ClaimLatinTwoBars => ClaimBarPhrase(0) # ClaimBarPhrase(1)

\* C16 amended: the same for the time signatures with at least 4 beats per
\* bar (4/4, 5/4, 6/8), the only ones in which the template looks at the
\* clave side.
C16_ClaveSidesDifferFromFourBeats ==
    (ClaimLatinTwoBars /\ ClaimBeatsPerBar(settingsIn.timeSignature) >= 4 * TU) =>
        ClaimBarPhrase(0) # ClaimBarPhrase(1)

\* C16 witness: a two-bar latin pattern in 5/4 with kicks and snares in both
\* bars, and a position bar 1 has that bar 0 has not
C16_Witness ==
    /\ ClaimLatinTwoBars
    /\ settingsIn.timeSignature = "5/4"
    /\ \E drum \in {"kick", "snare"} : <<drum, TU \div 2>> \in ClaimBarPhrase(1) \ ClaimBarPhrase(0)
    /\ \E p \in ClaimBarPhrase(0) : p[1] = "snare"

\* the template emitted a hit of the drum in the span of the bar
ClaimBarHas(drum, bar) ==
    LET beatsPerBar == ClaimBeatsPerBar(settingsIn.timeSignature)
    IN  \E i \in DOMAIN baseHits :
            /\ baseHits[i].drum = drum
            /\ bar * beatsPerBar <= baseHits[i].time
            /\ baseHits[i].time < (bar + 1) * beatsPerBar

\* C17: in the time signatures with fewer than 4 beats per bar (3/4, 7/8) the
\* rock, latin and lofi templates emit at least one kick and at least one
\* snare in every bar.
C17_ShortMetersKeepKickAndSnare ==
    (/\ Returned
     /\ settingsIn.kitStyle \in {"rock", "latin", "lofi"}
     /\ settingsIn.timeSignature \in {"3/4", "7/8"}) =>
        \A bar \in 0..(settingsIn.bars - 1) :
            ClaimBarHas("kick", bar) /\ ClaimBarHas("snare", bar)

ClaimSnareOffsets(bar) == {p[2] : p \in {q \in ClaimBarPhrase(bar) : q[1] = "snare"}}
ClaimIsBreakdownBar(bar) == settingsIn.complexity > 60 /\ (bar + 1) % 8 = 0
ClaimElectronic ==
    /\ Returned
    /\ settingsIn.kitStyle = "electronic"
    /\ settingsIn.timeSignature \in TimeSignatures

\* C19 as stated: in the electronic template, for every complexity and every
\* bar that is not a breakdown bar, snares are emitted on bar offsets 1 and 3
\* and at no other position (read for the meters that have a beat 4; in the
\* shorter ones only "at no other position" is asked).
C19_SnareOnlyOnTwoAndFour ==
    ClaimElectronic =>
        \A bar \in 0..(settingsIn.bars - 1) :
            ~ ClaimIsBreakdownBar(bar) =>
                /\ ClaimSnareOffsets(bar) \subseteq {TU, 3 * TU}
                /\ ClaimBeatsPerBar(settingsIn.timeSignature) >= 4 * TU =>
                      ClaimSnareOffsets(bar) = {TU, 3 * TU}

\* C19 amended: in every bar that is not a breakdown bar, in the meters with
\* at least 4 beats per bar the snare is emitted at bar offsets 1 and 3 and,
\* when complexity is above 0.7, at bar offset 1.5, and nowhere else; in the
\* shorter meters no snare is emitted.
C19_SnareOnTwoFourAndOffbeat ==
    ClaimElectronic =>
        \A bar \in 0..(settingsIn.bars - 1) :
            ~ ClaimIsBreakdownBar(bar) =>
                ClaimSnareOffsets(bar) =
                    IF ClaimBeatsPerBar(settingsIn.timeSignature) < 4 * TU THEN {}
                    ELSE IF settingsIn.complexity > 70 THEN {TU, (3 * TU) \div 2, 3 * TU}
                    ELSE {TU, 3 * TU}

\* C19 witness: an eight-bar electronic pattern above complexity 0.7 in 4/4:
\* bar 0 has the offbeat snare and bar 7 is the breakdown bar with its roll
C19_Witness ==
    /\ ClaimElectronic
    /\ settingsIn.timeSignature = "4/4"
    /\ settingsIn.bars = 8
    /\ ClaimIsBreakdownBar(7)
    /\ (3 * TU) \div 2 \in ClaimSnareOffsets(0)
    /\ Cardinality(ClaimSnareOffsets(7)) = 16

\* the template emitted a hit of the drum at exactly this time
ClaimEmittedAt(drum, time) ==
    \E i \in DOMAIN baseHits : baseHits[i].drum = drum /\ baseHits[i].time = time
\* a snare in the last beat of the bar and a crash on the downbeat after it
ClaimFillAndCrash(bar) ==
    LET beatsPerBar == ClaimBeatsPerBar(settingsIn.timeSignature)
    IN  /\ \E i \in DOMAIN baseHits :
              /\ baseHits[i].drum = "snare"
              /\ (bar + 1) * beatsPerBar - TU <= baseHits[i].time
              /\ baseHits[i].time < (bar + 1) * beatsPerBar
        /\ ClaimEmittedAt("crash", (bar + 1) * beatsPerBar)
ClaimJazz ==
    /\ Returned
    /\ settingsIn.kitStyle = "jazz"
    /\ settingsIn.timeSignature \in TimeSignatures

\* C20 as stated: in the jazz template, for every complexity, every bar whose
\* index + 1 is divisible by 4 gets snare hits in its last beat and a crash on
\* the following downbeat (bar start + beatsPerBar).
C20_PhraseEndFill ==
    ClaimJazz =>
        \A bar \in 0..(settingsIn.bars - 1) :
            (bar + 1) % 4 = 0 => ClaimFillAndCrash(bar)

\* C20 amended: the same for every complexity above 0.5; the fill is the three
\* snares at 1, 0.67 and 0.33 beats before the downbeat when complexity is
\* above 0.7 and the one snare half a beat before it otherwise.
C20_PhraseEndFillAboveHalf ==
    (ClaimJazz /\ settingsIn.complexity > 50) =>
        \A bar \in 0..(settingsIn.bars - 1) :
            (bar + 1) % 4 = 0 =>
                LET next == (bar + 1) * ClaimBeatsPerBar(settingsIn.timeSignature)
                IN  /\ ClaimFillAndCrash(bar)
                    /\ IF settingsIn.complexity > 70
                       THEN /\ ClaimEmittedAt("snare", next - TU)
                            /\ ClaimEmittedAt("snare", next - TU + (33 * TU) \div 100)
                            /\ ClaimEmittedAt("snare", next - TU + (67 * TU) \div 100)
                       ELSE ClaimEmittedAt("snare", next - TU \div 2)

\* C20 witness: an eight-bar jazz pattern in 7/8 above complexity 0.7, with
\* the crashes after bars 3 and 7, the second at the end of the pattern
C20_Witness ==
    /\ ClaimJazz
    /\ settingsIn.timeSignature = "7/8"
    /\ settingsIn.bars = 8
    /\ settingsIn.complexity > 70
    /\ ClaimEmittedAt("crash", 14 * TU)
    /\ ClaimEmittedAt("crash", 28 * TU)
    /\ ClaimEmittedAt("snare", 27 * TU)

\* the hits the template emitted of the drum at exactly this time
ClaimEmitted(drum, time) ==
    {i \in DOMAIN baseHits : baseHits[i].drum = drum /\ baseHits[i].time = time}
ClaimRock ==
    /\ Returned
    /\ settingsIn.kitStyle = "rock"
    /\ settingsIn.timeSignature \in TimeSignatures
ClaimRockFillBar(bar) == settingsIn.complexity > 60 /\ (bar + 1) % 4 = 0
ClaimFillNotes == << <<"snare", 0>>, <<"tom-high", TU \div 4>>,
                     <<"tom-mid", TU \div 2>>, <<"tom-low", (3 * TU) \div 4>> >>

\* C21: in the rock template above complexity 0.6, in every time signature,
\* a bar whose index + 1 is divisible by 4 has no hihat-closed and no
\* hihat-open hit, and its last beat carries snare, tom-high, tom-mid, tom-low
\* at 0, 0.25, 0.5, 0.75 after (bar start + beatsPerBar - 1), each not louder
\* than the one before.
C21_FillBarHasFillAndNoHihat ==
    ClaimRock =>
        \A bar \in 0..(settingsIn.bars - 1) :
            ClaimRockFillBar(bar) =>
                LET fillStart == (bar + 1) * ClaimBeatsPerBar(settingsIn.timeSignature) - TU
                    note(k) == ClaimEmitted(ClaimFillNotes[k][1], fillStart + ClaimFillNotes[k][2])
                    velocity(k) == baseHits[CHOOSE i \in note(k) : TRUE].velocity
                IN  /\ ~ ClaimBarHas("hihat-closed", bar)
                    /\ ~ ClaimBarHas("hihat-open", bar)
                    /\ \A k \in 1..4 : Cardinality(note(k)) = 1
                    /\ \A k \in 1..3 : velocity(k) >= velocity(k + 1)

\* C21 witness: an eight-bar rock pattern in 7/8 above complexity 0.8 and
\* dynamics 0.7: open and closed hi-hats are emitted, and the fill of bar 3
\* ends with the tom-low a quarter beat before bar 4
C21_Witness ==
    /\ ClaimRock
    /\ settingsIn.timeSignature = "7/8"
    /\ settingsIn.bars = 8
    /\ settingsIn.complexity > 80
    /\ ClaimRockFillBar(3)
    /\ ClaimBarHas("hihat-closed", 2)
    /\ \E bar \in 0..7 : ClaimBarHas("hihat-open", bar)
    /\ ClaimEmitted("tom-low", 14 * TU - TU \div 4) # {}

\* the time, in 1/TU of a beat, that a bars:beats:sixteenths position denotes
\* when a bar has beatsPerBar beats: bars x beatsPerBar + beats + sixteenths/4
ClaimPosition(t, beatsPerBar) == t.bars * beatsPerBar + t.beats * TU + t.sixteenths \div 4
ClaimScheduled ==
    /\ pc = "done"
    /\ op = "schedule"
    /\ patternIn.timeSignature \in TimeSignatures

\* C22: for every hit of a pattern in any of the five time signatures, the
\* position schedulePattern computes denotes the hit's time.
C22_TimeStrDenotesHitTime ==
    ClaimScheduled =>
        \A i \in DOMAIN scheduled :
            /\ scheduled[i].sixteenths % 4 = 0
            /\ ClaimPosition(scheduled[i], ClaimBeatsPerBar(patternIn.timeSignature))
                  = patternIn.hits[i].time

\* C23: in jazz and lofi output, in every time signature and bar, a hit the
\* template placed on a whole beat of its bar (bar start + an integer number
\* of beats) is not displaced by the swing stage.
C23_SwingLeavesOnbeatsAlone ==
    (/\ Returned
     /\ settingsIn.kitStyle \in {"jazz", "lofi"}
     /\ settingsIn.timeSignature \in TimeSignatures) =>
        LET beatsPerBar == ClaimBeatsPerBar(settingsIn.timeSignature)
        IN  \A i \in DOMAIN baseHits :
                (baseHits[i].time % beatsPerBar) % TU = 0 =>
                    swungHits[i].time = baseHits[i].time

\* C25: in the rock template, a bar in which the ride pattern is emitted
\* (dynamics < 0.3 and complexity > 0.4) has no hihat-closed and no hihat-open
\* hit.
C25_RideReplacesHihat ==
    (ClaimRock /\ settingsIn.dynamics < 30 /\ settingsIn.complexity > 40) =>
        \A bar \in 0..(settingsIn.bars - 1) :
            ClaimBarHas("ride", bar) =>
                /\ ~ ClaimBarHas("hihat-closed", bar)
                /\ ~ ClaimBarHas("hihat-open", bar)

\* C26: in the rock template, for every complexity and every bar b > 0, a
\* crash is emitted on the downbeat of bar b only if bar b - 1 was a fill bar.
C26_CrashOnlyAfterFill ==
    ClaimRock =>
        \A bar \in 1..(settingsIn.bars - 1) :
            ClaimEmitted("crash", bar * ClaimBeatsPerBar(settingsIn.timeSignature)) # {}
                => ClaimRockFillBar(bar - 1)

\* C27: in the latin template, for every dynamics above 0.6 and every bar, in
\* the meters of at least 4 beats, hihat-open hits are emitted at bar offsets
\* 1.5 and 3.5.
C27_LatinOpenHats ==
    (/\ Returned
     /\ settingsIn.kitStyle = "latin"
     /\ settingsIn.timeSignature \in TimeSignatures
     /\ ClaimBeatsPerBar(settingsIn.timeSignature) >= 4 * TU
     /\ settingsIn.dynamics > 60) =>
        \A bar \in 0..(settingsIn.bars - 1) :
            LET barOffset == bar * ClaimBeatsPerBar(settingsIn.timeSignature)
            IN  /\ ClaimEmitted("hihat-open", barOffset + (3 * TU) \div 2) # {}
                /\ ClaimEmitted("hihat-open", barOffset + (7 * TU) \div 2) # {}

\* C28: for all valid settings and every outcome of the random draws, every
\* hit of the returned Pattern has time strictly less than lengthInBeats.
C28_HitsInsideLoop ==
    (/\ Returned
     /\ settingsIn.kitStyle \in KitStyles
     /\ settingsIn.timeSignature \in TimeSignatures) =>
        \A i \in DOMAIN pattern.hits : pattern.hits[i].time < pattern.lengthInBeats

\* C29: at every quiescent point (no UI handler and no AudioEngine async call in
\* progress), the App's isPlaying flag equals AudioEngine.isPlaying, for every
\* interleaving of the Generate, Play/Stop, Reset and kit-style-change actions.
C29_PlayingFlagsAgreeAtRest ==
    tasks = <<>> => app.isPlaying = engine.isPlaying

\* C24: whenever a call to AudioEngine.init resolves, the engine's current kit
\* has finished loading its samples, under any interleaving of concurrent init,
\* setKitStyle and App.handlePlay calls; so play() is never started on a kit
\* that is still loading.  (A call leaves `tasks` in the step in which its init
\* resolves; play() has started in a step that sets the engine's isPlaying.)
C24_InitResolvesOnLoadedKit ==
    [][(pc = "kits" /\ (Len(tasks') < Len(tasks) \/ (engine'.isPlaying /\ ~engine.isPlaying)))
          => (/\ engine'.currentKit # Null
              /\ kits'[engine'.currentKit].loaded)]_vars

\* C30: under any interleaving of AudioEngine.init and setKitStyle calls, at
\* most one kit created by the engine is undisposed at any time: every kit but
\* the installed one has been disposed of (so the kit a new one replaces has),
\* and the engine's kitStyle names the style of the installed kit.
C30_OneLiveKit ==
    pc = "kits" =>
        /\ Cardinality({k \in DOMAIN kits : ~kits[k].disposed}) <= 1
        /\ \A k \in DOMAIN kits : k # engine.currentKit => kits[k].disposed
        /\ engine.currentKit # Null => kits[engine.currentKit].style = engine.kitStyle

\* a second init has replaced a kit while the call that created it still waits
\* for its samples
C30_Witness ==
    /\ pc = "kits"
    /\ Len(kits) >= 2
    /\ engine.currentKit = Len(kits)
    /\ \E i \in DOMAIN tasks :
          /\ tasks[i].at = "waitForLoad"
          /\ tasks[i].ref # engine.currentKit
          /\ kits[tasks[i].ref].disposed

====
